---- MODULE Spec2Model ----
(***************************************************************************)
(* Model of the Codex remote launcher of hapi:                             *)
(*   - CodexRemoteLauncher (cli/src/codex/codexRemoteLauncher.ts): the     *)
(*     session loop (runMainLoop), the abort sequence (handleAbort) and    *)
(*     the canonical-event handler (handleCodexEvent) with its tool-call   *)
(*     correlation;                                                        *)
(*   - AppServerEventConverter (utils/appServerEventConverter.ts): the     *)
(*     notification normalizer.                                            *)
(*                                                                         *)
(* JavaScript runs the loop, the abort handler and the notification        *)
(* callback on one thread: code between two awaits is atomic.  The loop's  *)
(* position is pc; positions that are not awaits are passed through by     *)
(* loop steps only (every other action is guarded by AtSuspension).        *)
(***************************************************************************)
EXTENDS FiniteSets, Integers, Sequences, TLC

(***************************************************************************)
(* Bounds of the model.                                                    *)
(***************************************************************************)
MaxMessages == 2      \* user message batches enqueued in one run
MaxAborts == 1        \* abort / exit / switch requests in one run
MaxEvents == 4        \* canonical events fed to the emitter in one run
MaxEmitterTurns == 2  \* turns the runtime opens in an emitter run
MaxDeltas == 2        \* characters the delta buffers of the converter may hold
MaxRequests == 3      \* approval and user-input requests of the runtime in one run

(***************************************************************************)
(* Values.  Null stands for null / undefined / an absent field; NonString  *)
(* for any value that is neither a string nor null (number, object, ...).  *)
(***************************************************************************)
Null == "<null>"
NonString == "<non-string>"

TurnName(n) == "t" \o ToString(n)
OldThreadId == "thA"     \* the thread of a session that is being resumed
NewThreadId == "thB"     \* the thread the runtime creates on startThread
ItemIds == {"i1", "i2"}
ModeHashes == {"h1", "h2"}
TerminalTypes == {"task_complete", "turn_aborted", "task_failed"}

\* asString: a non-empty string, else null
asString(v) == IF v = Null \/ v = NonString \/ v = "" THEN Null ELSE v

\* a ?? b
Coalesce(a, b) == IF a = Null THEN b ELSE a

\* A canonical event / raw message: every field the handlers read.
BlankMsg ==
    [type |-> Null, thread_id |-> Null, threadId |-> Null,
     turn_id |-> Null, turnId |-> Null, item_id |-> Null, itemId |-> Null,
     call_id |-> Null, callId |-> Null, error |-> Null, status |-> Null,
     delta |-> Null, text |-> Null, unified_diff |-> Null, message |-> Null,
     plan_text |-> Null, command |-> Null, cwd |-> Null, changes |-> Null,
     output |-> Null, stdout |-> Null, exit_code |-> Null, success |-> Null,
     reasoning_stream |-> Null, summary_index |-> Null]

\* asString(msg.turn_id ?? msg.turnId)
MsgTurnId(msg) == asString(Coalesce(msg.turn_id, msg.turnId))

\* asString(msg.thread_id ?? msg.threadId)
MsgThreadId(msg) == asString(Coalesce(msg.thread_id, msg.threadId))

\* `${prefix}:${randomUUID()}`, the n-th identifier drawn
FreshId(prefix, n) == prefix \o ":uuid" \o ToString(n)

\* a chain that reads the item id before the explicit call id
CallIdField_ItemFirst(msg) ==
    Coalesce(msg.item_id, Coalesce(msg.itemId, Coalesce(msg.call_id, msg.callId)))

\* the field extractCallId reads: call_id ?? callId ?? item_id ?? itemId
CallIdField(msg) ==
    Coalesce(msg.call_id, Coalesce(msg.callId, Coalesce(msg.item_id, msg.itemId)))

HasCallId(msg) == asString(CallIdField(msg)) # Null

\* extractCallId(source, prefix), n the next random identifier
extractCallId(msg, prefix, n) ==
    IF HasCallId(msg) THEN asString(CallIdField(msg)) ELSE FreshId(prefix, n)

\* count of a key in a counting map
Count(f, k) == IF k \in DOMAIN f THEN f[k] ELSE 0
Bump(f, k) == IF k \in DOMAIN f THEN [f EXCEPT ![k] = @ + 1] ELSE f @@ (k :> 1)
Put(f, k, v) == IF k \in DOMAIN f THEN [f EXCEPT ![k] = v] ELSE f @@ (k :> v)
Drop(f, k) == [x \in (DOMAIN f) \ {k} |-> f[x]]
EmptyMap == [x \in {} |-> 0]

(***************************************************************************)
(* State.                                                                  *)
(***************************************************************************)
VARIABLES
    \* CodexRemoteLauncher fields
    useAppServer,       \* this.useAppServer
    currentThreadId,    \* this.currentThreadId
    currentTurnId,      \* this.currentTurnId
    abortController,    \* this.abortController: the number of the current scope
    abortedScopes,      \* the scopes whose signal is aborted
    shouldExit,         \* this.shouldExit
    \* session
    sessionId,          \* session.sessionId
    thinking,           \* session.thinking
    queue,              \* session.queue: the queued message batches
    \* runMainLoop locals
    pc,                 \* position of the loop
    wasCreated, currentModeHash, pending, first, turnInFlight,
    message,            \* the message of the current iteration
    rpcSignal,          \* the signal handed to the pending wait / RPC
    rpcTurn,            \* the turn the pending startTurn asks for
    errKind,            \* the error caught by the iteration's catch block
    resumeCandidate,    \* const resumeCandidate = session.sessionId
    threadId,           \* let threadId: string | null
    \* collaborators: what each one currently holds
    collab,
    converter,          \* appServerEventConverter: its buffers and caches
    \* handleCodexEvent closure state and what it sent
    planCallIdByTurn,   \* Map turn id -> plan call id
    toolCalls,          \* call id -> number of tool-call messages sent
    toolResults,        \* call id -> number of tool-call-result messages sent
    uuidCounter,        \* number of randomUUID() values drawn for ids
    \* handleAbort instances suspended in `await interruptTurn`
    abortsAwaiting,
    \* the runtime (environment)
    rtTurn,             \* turn id -> "requested" | "refused" | "running" |
                        \*            "failing" | "ended"
    enqueued,           \* message batches enqueued so far
    abortReqs,          \* abort requests so far
    evCount,            \* canonical events fed to the emitter so far
    corr,               \* the begin/end pair of a correlation run
    \* history (observation only)
    terminalCount,      \* turn id -> terminal events processed for it
    lastTerminal,       \* turn id -> type of the last terminal event
    planUpdated,        \* turn id -> turn_plan_updated events processed
    callOwner,          \* call id -> turn during which its tool-call was sent
    planCalls,          \* call ids opened by a plan event
    lastCmd,            \* the last outbound command of the iteration
    interruptCalls,     \* interruptTurn calls, in order
    hist                \* record of per-claim observations

launcherVars == <<useAppServer, currentThreadId, currentTurnId, abortController,
                  abortedScopes, shouldExit>>
sessionVars == <<sessionId, thinking, queue>>
\* the locals of runMainLoop that handleCodexEvent does not write
loopLocals == <<pc, wasCreated, currentModeHash, pending, first,
                message, rpcSignal, rpcTurn, errKind, resumeCandidate, threadId>>
loopVars == <<loopLocals, turnInFlight>>
emitterVars == <<planCallIdByTurn, toolCalls, toolResults, uuidCounter>>
envVars == <<rtTurn, enqueued, abortReqs, evCount, corr, abortsAwaiting>>
histVars == <<terminalCount, lastTerminal, planUpdated, callOwner, planCalls,
              lastCmd, interruptCalls, hist>>
vars == <<launcherVars, sessionVars, loopVars, collab, converter, emitterVars, envVars,
         histVars>>

(***************************************************************************)
(* AppServerEventConverter: thread / turn / error notifications.           *)
(***************************************************************************)
JsTrue == "<true>"
JsFalse == "<false>"

\* asBoolean: a boolean, else null
asBoolean(v) == IF v \in {JsTrue, JsFalse} THEN v ELSE Null

\* the finite numbers of the model
Numbers == {"#0", "#1"}

\* asNumber that takes zero for no number
asNumber_NonZero(v) == IF v \in Numbers \ {"#0"} THEN v ELSE Null

\* asNumber: a finite number, else null
asNumber(v) == IF v \in Numbers THEN v ELSE Null

\* String.prototype.toLowerCase on the status strings of the model
toLowerCase(str) ==
    CASE str = "Completed" -> "completed"
      [] str = "Interrupted" -> "interrupted"
      [] str = "Cancelled" -> "cancelled"
      [] str = "Canceled" -> "canceled"
      [] str = "Failed" -> "failed"
      [] str = "Error" -> "error"
      [] OTHER -> str

\* a nested record that is not there
NoRecord == [present |-> FALSE, id |-> Null, turnId |-> Null, turn_id |-> Null,
             threadId |-> Null, thread_id |-> Null, status |-> Null,
             message |-> Null]

\* an item record that is not there
NoItem ==
    [present |-> FALSE, id |-> Null, itemId |-> Null, item_id |-> Null,
     type |-> Null, text |-> Null, message |-> Null, content |-> Null,
     status |-> Null, command |-> Null, cwd |-> Null, output |-> Null,
     stdout |-> Null, changes |-> Null, exitCode |-> Null, success |-> Null,
     ok |-> Null, applied |-> Null]

\* the params of a notification: every field the modelled methods read
BlankParams ==
    [id |-> Null, threadId |-> Null, thread_id |-> Null, turnId |-> Null,
     turn_id |-> Null, status |-> Null, itemId |-> Null, item_id |-> Null,
     type |-> Null, delta |-> Null, text |-> Null, output |-> Null,
     stdout |-> Null, item |-> NoItem, summaryIndex |-> Null, summary_index |-> Null,
     message |-> Null, reason |-> Null, will_retry |-> Null, willRetry |-> Null,
     diff |-> Null, unified_diff |-> Null, unifiedDiff |-> Null,
     error |-> Null,          \* a string, or NonString with the record in errorRecord
     errorRecord |-> NoRecord, turn |-> NoRecord, thread |-> NoRecord]

\* the first candidate that is a non-empty string
FirstString(candidates) ==
    IF \E k \in 1..Len(candidates) : asString(candidates[k]) # Null
    THEN candidates[CHOOSE k \in 1..Len(candidates) :
                        /\ asString(candidates[k]) # Null
                        /\ \A j \in 1..(k-1) : asString(candidates[j]) = Null]
    ELSE Null

\* extractThreadId(params) without an item (params.sid and turn.thread are
\* carried by no notification of the model)
extractThreadId(params) ==
    FirstString(<<params.threadId, params.thread_id, params.thread.id,
                  params.thread.threadId, params.thread.thread_id,
                  params.turn.threadId, params.turn.thread_id>>)

\* extractTurnId(params) without an item
extractTurnId(params) ==
    FirstString(<<params.turnId, params.turn_id, params.turn.id, params.turn.turnId,
                  params.turn.turn_id>>)

\* pickStatus(params) without an item
pickStatus(params) == asString(params.status)

\* addStableFields(target, params)
addStableFields(target, params) ==
    [target EXCEPT
        !.thread_id = Coalesce(extractThreadId(params), @),
        !.turn_id = Coalesce(extractTurnId(params), @),
        !.status = Coalesce(pickStatus(params), @)]

\* asRecord(params.turn) ?? params, as far as the id and status are read
TurnOrParams(params) ==
    IF params.turn.present THEN params.turn
    ELSE [NoRecord EXCEPT !.id = params.id, !.turnId = params.turnId,
                          !.turn_id = params.turn_id, !.status = params.status]

\* a classification that takes every turn for completed
CompletedType_AlwaysComplete(status) == "task_complete"

\* the event type of turn/completed for a case-folded status
CompletedType(status) ==
    IF status \in {"interrupted", "cancelled", "canceled"} THEN "turn_aborted"
    ELSE IF status \in {"failed", "error"} THEN "task_failed"
    ELSE "task_complete"

\* an error handler that never suppresses
WillRetry_Never(params) == FALSE

\* error: suppressed when will_retry is true
WillRetry(params) ==
    asBoolean(Coalesce(params.will_retry, params.willRetry)) = JsTrue

\* handleNotification(method, params): the converted events, in order
handleNotification(method, params) ==
    IF method \in {"thread/started", "thread/resumed"} THEN
        LET thread == IF params.thread.present THEN params.thread
                      ELSE [NoRecord EXCEPT !.id = params.id, !.threadId = params.threadId,
                                            !.thread_id = params.thread_id]
            tid == asString(Coalesce(thread.threadId, Coalesce(thread.thread_id, thread.id)))
        IN IF tid # Null
           THEN <<[BlankMsg EXCEPT !.type = "thread_started", !.thread_id = tid]>>
           ELSE <<>>
    ELSE IF method = "turn/started" THEN
        LET turn == TurnOrParams(params)
            tid == asString(Coalesce(turn.turnId, Coalesce(turn.turn_id, turn.id)))
        IN <<addStableFields([BlankMsg EXCEPT !.type = "task_started", !.turn_id = tid],
                             params)>>
    ELSE IF method = "turn/completed" THEN
        LET turn == TurnOrParams(params)
            statusRaw == asString(Coalesce(params.status, turn.status))
            status == IF statusRaw = Null THEN Null ELSE toLowerCase(statusRaw)
            tid == asString(Coalesce(turn.turnId, Coalesce(turn.turn_id, turn.id)))
            errorMessage == asString(Coalesce(params.error,
                                Coalesce(params.message, params.reason)))
            ty == CompletedType(status)
        IN <<addStableFields(
               [BlankMsg EXCEPT !.type = ty, !.turn_id = tid,
                                !.error = IF ty = "task_failed" THEN errorMessage ELSE Null],
               params)>>
    ELSE IF method = "turn/diff/updated" THEN
        LET diff == asString(Coalesce(params.diff,
                        Coalesce(params.unified_diff, params.unifiedDiff)))
        IN IF diff # Null
           THEN <<addStableFields([BlankMsg EXCEPT !.type = "turn_diff",
                                                    !.unified_diff = diff], params)>>
           ELSE <<>>
    ELSE IF method = "turn/plan/updated" THEN
        <<addStableFields([BlankMsg EXCEPT !.type = "turn_plan_updated"], params)>>
    ELSE IF method = "thread/tokenUsage/updated" THEN
        <<addStableFields([BlankMsg EXCEPT !.type = "token_count"], params)>>
    ELSE IF method = "item/reasoning/summaryPartAdded" THEN
        <<addStableFields([BlankMsg EXCEPT !.type = "agent_reasoning_section_break"],
                          params)>>
    ELSE IF method = "error" THEN
        IF WillRetry(params) THEN <<>>
        ELSE
            LET m == Coalesce(asString(params.message),
                       Coalesce(IF params.errorRecord.present
                                THEN asString(params.errorRecord.message) ELSE Null,
                         Coalesce(asString(params.reason), "Unknown app-server error")))
            IN <<addStableFields([BlankMsg EXCEPT !.type = "task_failed", !.error = m],
                                 params)>>
    ELSE <<>>

(***************************************************************************)
(* AppServerEventConverter: the buffers, the delta notifications and the   *)
(* item/started and item/completed notifications.  Items of the model      *)
(* carry no thread or turn of their own (item.threadId, item.turn, ...     *)
(* are absent), and no stderr, error or auto-approval flag.                *)
(***************************************************************************)
\* asText: a string as it is, any other value as its text, null for null
asText(v) == IF v = Null THEN Null ELSE IF v = NonString THEN "<json>" ELSE v

\* a truthy string (`if (text)`): neither null nor empty
Truthy(v) == v # Null /\ v # ""

\* extractItem that reads the params only
extractItem_ParamsOnly(params) ==
    [NoItem EXCEPT !.id = params.id, !.itemId = params.itemId,
                   !.item_id = params.item_id, !.type = params.type,
                   !.text = params.text, !.message = params.message,
                   !.status = params.status, !.output = params.output,
                   !.stdout = params.stdout]

\* extractItem(params): asRecord(params.item) ?? params
extractItem(params) ==
    IF params.item.present THEN params.item
    ELSE [NoItem EXCEPT !.id = params.id, !.itemId = params.itemId,
                        !.item_id = params.item_id, !.type = params.type,
                        !.text = params.text, !.message = params.message,
                        !.status = params.status, !.output = params.output,
                        !.stdout = params.stdout]

\* extractItemId(params)
extractItemId(params) ==
    LET direct == asString(Coalesce(params.itemId, Coalesce(params.item_id, params.id)))
    IN IF direct # Null THEN direct
       ELSE IF params.item.present
            THEN asString(Coalesce(params.item.id,
                             Coalesce(params.item.itemId, params.item.item_id)))
            ELSE Null

\* normalizeItemType that takes an item without a type for a plan
normalizeItemType_Guess(value) ==
    IF asString(value) = Null THEN "plan" ELSE "todolist"

\* normalizeItemType: lower case without blanks, underscores and dashes, on
\* the type names of the model
normalizeItemType(value) ==
    LET raw == asString(value) IN
    CASE raw = Null -> Null
      [] raw \in {" ", "_", "-"} -> ""
      [] raw \in {"agentMessage", "agent_message", "AgentMessage"} -> "agentmessage"
      [] raw \in {"reasoning", "Reasoning"} -> "reasoning"
      [] raw \in {"plan", "Plan"} -> "plan"
      [] raw \in {"commandExecution", "command_execution"} -> "commandexecution"
      [] raw \in {"fileChange", "file_change"} -> "filechange"
      [] raw \in {"mcpToolCall", "mcp_tool_call"} -> "mcptoolcall"
      [] raw \in {"collabToolCall", "collab_tool_call"} -> "collabtoolcall"
      [] raw \in {"webSearch", "web_search"} -> "websearch"
      [] raw \in {"imageView", "image_view"} -> "imageview"
      [] raw \in {"enteredReviewMode", "entered_review_mode"} -> "enteredreviewmode"
      [] raw \in {"exitedReviewMode", "exited_review_mode"} -> "exitedreviewmode"
      [] raw \in {"contextCompaction", "context_compaction"} -> "contextcompaction"
      [] raw = "todoList" -> "todolist"
      [] OTHER -> raw

\* the item types item/started and item/completed handle
RecognizedItemTypes ==
    {"agentmessage", "reasoning", "plan", "commandexecution", "filechange",
     "mcptoolcall", "collabtoolcall", "websearch", "imageview",
     "enteredreviewmode", "exitedreviewmode", "contextcompaction"}

\* the seven maps of a new converter
EmptyConverter ==
    [agentMessageBuffers |-> EmptyMap, reasoningBuffers |-> EmptyMap,
     planBuffers |-> EmptyMap, commandOutputBuffers |-> EmptyMap,
     fileChangeOutputBuffers |-> EmptyMap, commandMeta |-> EmptyMap,
     fileChangeMeta |-> EmptyMap]

\* reset() that clears the metadata caches only
reset_KeepsBuffers(cv) ==
    [cv EXCEPT !.commandMeta = EmptyMap, !.fileChangeMeta = EmptyMap]

\* reset() that forgets to clear the metadata caches
reset_KeepsMeta(cv) ==
    [EmptyConverter EXCEPT !.commandMeta = cv.commandMeta,
                           !.fileChangeMeta = cv.fileChangeMeta]

\* reset(): every map is cleared
reset(cv) == EmptyConverter

\* map.get(key), undefined as null
Get(f, k) == IF k \in DOMAIN f THEN f[k] ELSE Null

\* prev + delta with an accumulator that keeps only the last delta
Appended_LastOnly(buffer, itemId, delta) == delta

\* delta + (buffer.get(itemId) ?? '')
Appended_Prepended(buffer, itemId, delta) == delta \o Coalesce(Get(buffer, itemId), "")

\* (buffer.get(itemId) ?? '') + delta
Appended(buffer, itemId, delta) == Coalesce(Get(buffer, itemId), "") \o delta

\* the metadata a started item leaves for its completion; `{}` is NoMeta
NoMeta == [command |-> Null, cwd |-> Null, changes |-> Null,
           thread_id |-> Null, turn_id |-> Null]

\* extractCommand on a string or a non-array value
extractCommand(v) == IF v = Null \/ v = NonString THEN Null ELSE v

\* extractChanges: an array of changes becomes a record keyed by path (null
\* when no entry has a path), a record (NonString or one keyed by path)
\* stays, anything else is null
extractChanges(v) ==
    CASE v = "[a.ts]" -> "{a.ts}"
      [] v = "[b.ts]" -> "{b.ts}"
      [] v = "[]" -> Null
      [] v \in {NonString, "{a.ts}", "{b.ts}"} -> v
      [] OTHER -> Null

\* the success of a file change taken from its status alone
Success_StatusOnly(item) == IF item.status = "completed" THEN JsTrue ELSE JsFalse

\* asBoolean(item.success ?? item.ok ?? item.applied ??
\*           item.status === 'completed') ?? false
Success(item) ==
    Coalesce(asBoolean(Coalesce(item.success, Coalesce(item.ok, Coalesce(item.applied,
                 IF item.status = "completed" THEN JsTrue ELSE JsFalse)))),
             JsFalse)

\* addStableFields(target, params, item, itemId) for an item without a
\* thread or turn of its own
addStableFieldsItem(target, params, item, itemId) ==
    [target EXCEPT
        !.thread_id = Coalesce(extractThreadId(params), @),
        !.turn_id = Coalesce(extractTurnId(params), @),
        !.item_id = Coalesce(asString(itemId), @),
        !.status = Coalesce(asString(Coalesce(params.status, item.status)), @)]

\* every reasoning delta tagged as a raw one
reasoningStream_AlwaysRaw(method) == "raw"

\* method === 'item/reasoning/summaryTextDelta' ? 'summary' : 'raw'
reasoningStream(method) ==
    IF method = "item/reasoning/summaryTextDelta" THEN "summary" ELSE "raw"

\* the delta of a text delta notification
DeltaOf(params) ==
    asString(Coalesce(params.delta, Coalesce(params.text, params.message)))

\* the delta of an output delta notification (params.response is absent)
OutputDeltaOf(params) ==
    asText(Coalesce(params.delta,
             Coalesce(params.text, Coalesce(params.output, params.stdout))))

\* the outcome of a notification that changes nothing and emits nothing
Nothing(cv) == [events |-> <<>>, conv |-> cv]

\* item/started and item/completed
handleItem(cv, method, params) ==
    LET item == extractItem(params)
        itemType == normalizeItemType(item.type)
        itemId == Coalesce(extractItemId(params),
                    asString(Coalesce(item.id, Coalesce(item.itemId, item.item_id))))
        status == asString(item.status)
        done == method = "item/completed"
        itemText == asString(Coalesce(item.text, Coalesce(item.message, item.content)))
        ev(ty) == addStableFieldsItem(
                      [BlankMsg EXCEPT !.type = ty, !.call_id = itemId,
                                       !.item_id = itemId, !.status = status],
                      params, item, itemId)
        \* the end event of a tool item: output: item.result ?? item.output ?? null
        \* (items of the model carry no result)
        end(ty) == [ev(ty) EXCEPT !.output = item.output]
    IN
    IF ~Truthy(itemType) \/ itemId = Null THEN Nothing(cv)
    ELSE IF itemType = "agentmessage" THEN
        IF ~done THEN Nothing(cv)
        ELSE LET text == Coalesce(itemText, Get(cv.agentMessageBuffers, itemId)) IN
             [events |-> IF Truthy(text)
                         THEN <<[ev("agent_message") EXCEPT !.call_id = Null,
                                                            !.message = text]>>
                         ELSE <<>>,
              conv |-> [cv EXCEPT !.agentMessageBuffers = Drop(@, itemId)]]
    ELSE IF itemType = "reasoning" THEN
        IF ~done THEN Nothing(cv)
        ELSE LET text == Coalesce(itemText, Get(cv.reasoningBuffers, itemId)) IN
             [events |-> IF Truthy(text)
                         THEN <<[ev("agent_reasoning") EXCEPT !.call_id = Null,
                                                              !.text = text]>>
                         ELSE <<>>,
              conv |-> [cv EXCEPT !.reasoningBuffers = Drop(@, itemId)]]
    ELSE IF itemType = "plan" THEN
        IF ~done
        THEN [events |-> <<[ev("plan_item_started") EXCEPT !.text = itemText]>>,
              conv |-> IF itemText # Null
                       THEN [cv EXCEPT !.planBuffers = Put(@, itemId, itemText)]
                       ELSE cv]
        ELSE LET text == Coalesce(itemText, Get(cv.planBuffers, itemId)) IN
             [events |-> <<[ev("plan_item_completed") EXCEPT
                               !.text = IF Truthy(text) THEN text ELSE Null]>>,
              conv |-> [cv EXCEPT !.planBuffers = Drop(@, itemId)]]
    ELSE IF itemType = "commandexecution" THEN
        IF ~done
        THEN LET command == extractCommand(item.command)
                 meta == [NoMeta EXCEPT !.command = IF Truthy(command) THEN command
                                                    ELSE Null,
                                        !.cwd = asString(item.cwd),
                                        !.thread_id = extractThreadId(params),
                                        !.turn_id = extractTurnId(params)]
             IN [events |-> <<addStableFieldsItem(
                                [BlankMsg EXCEPT !.type = "exec_command_begin",
                                    !.call_id = itemId, !.item_id = itemId,
                                    !.command = meta.command, !.cwd = meta.cwd,
                                    !.thread_id = meta.thread_id,
                                    !.turn_id = meta.turn_id, !.status = status],
                                params, item, itemId)>>,
                 conv |-> [cv EXCEPT !.commandMeta = Put(@, itemId, meta)]]
        ELSE LET meta == IF itemId \in DOMAIN cv.commandMeta
                         THEN cv.commandMeta[itemId] ELSE NoMeta
                 output == Coalesce(asText(Coalesce(item.output, item.stdout)),
                                    Get(cv.commandOutputBuffers, itemId))
             IN [events |-> <<addStableFieldsItem(
                                [BlankMsg EXCEPT !.type = "exec_command_end",
                                    !.call_id = itemId, !.item_id = itemId,
                                    !.command = meta.command, !.cwd = meta.cwd,
                                    !.thread_id = meta.thread_id,
                                    !.turn_id = meta.turn_id,
                                    !.output = IF Truthy(output) THEN output ELSE Null,
                                    !.exit_code = asNumber(item.exitCode),
                                    !.status = status],
                                params, item, itemId)>>,
                 conv |-> [cv EXCEPT !.commandMeta = Drop(@, itemId),
                                     !.commandOutputBuffers = Drop(@, itemId)]]
    ELSE IF itemType = "filechange" THEN
        IF ~done
        THEN LET meta == [NoMeta EXCEPT !.changes = extractChanges(item.changes),
                                        !.thread_id = extractThreadId(params),
                                        !.turn_id = extractTurnId(params)]
             IN [events |-> <<addStableFieldsItem(
                                [BlankMsg EXCEPT !.type = "patch_apply_begin",
                                    !.call_id = itemId, !.item_id = itemId,
                                    !.changes = meta.changes,
                                    !.thread_id = meta.thread_id,
                                    !.turn_id = meta.turn_id, !.status = status],
                                params, item, itemId)>>,
                 conv |-> [cv EXCEPT !.fileChangeMeta = Put(@, itemId, meta)]]
        ELSE LET meta == IF itemId \in DOMAIN cv.fileChangeMeta
                         THEN cv.fileChangeMeta[itemId] ELSE NoMeta
                 stdout == Coalesce(asText(Coalesce(item.stdout, item.output)),
                                    Get(cv.fileChangeOutputBuffers, itemId))
             IN [events |-> <<addStableFieldsItem(
                                [BlankMsg EXCEPT !.type = "patch_apply_end",
                                    !.call_id = itemId, !.item_id = itemId,
                                    !.changes = meta.changes,
                                    !.thread_id = meta.thread_id,
                                    !.turn_id = meta.turn_id,
                                    !.stdout = IF Truthy(stdout) THEN stdout ELSE Null,
                                    !.success = Success(item),
                                    !.status = status],
                                params, item, itemId)>>,
                 conv |-> [cv EXCEPT !.fileChangeMeta = Drop(@, itemId),
                                     !.fileChangeOutputBuffers = Drop(@, itemId)]]
    ELSE IF itemType = "mcptoolcall" THEN
        [events |-> <<IF done THEN end("mcp_tool_call_end") ELSE ev("mcp_tool_call_begin")>>,
         conv |-> cv]
    ELSE IF itemType = "collabtoolcall" THEN
        [events |-> <<IF done THEN end("collab_tool_call_end")
                      ELSE ev("collab_tool_call_begin")>>,
         conv |-> cv]
    ELSE IF itemType = "websearch" THEN
        [events |-> <<IF done THEN end("web_search_end") ELSE ev("web_search_begin")>>,
         conv |-> cv]
    ELSE IF itemType = "imageview" THEN
        [events |-> <<IF done THEN end("image_view_end") ELSE ev("image_view_begin")>>,
         conv |-> cv]
    ELSE IF itemType = "enteredreviewmode" THEN
        [events |-> <<ev("review_mode_entered")>>, conv |-> cv]
    ELSE IF itemType = "exitedreviewmode" THEN
        [events |-> <<ev("review_mode_exited")>>, conv |-> cv]
    ELSE IF itemType = "contextcompaction" THEN
        [events |-> <<ev(IF done THEN "context_compaction_completed"
                         ELSE "context_compaction_started")>>,
         conv |-> cv]
    ELSE Nothing(cv)

\* handleNotification on a converter with buffers cv: the events and the
\* buffers afterwards
convert(cv, method, params) ==
    LET itemId == extractItemId(params) IN
    IF method = "item/agentMessage/delta" THEN
        LET delta == DeltaOf(params) IN
        IF itemId # Null /\ delta # Null
        THEN [events |-> <<>>,
              conv |-> [cv EXCEPT !.agentMessageBuffers =
                           Put(@, itemId, Appended(@, itemId, delta))]]
        ELSE Nothing(cv)
    ELSE IF method = "item/plan/delta" THEN
        LET delta == DeltaOf(params)
            next == Appended(cv.planBuffers, itemId, delta)
        IN
        IF itemId # Null /\ delta # Null
        THEN [events |-> <<addStableFieldsItem(
                             [BlankMsg EXCEPT !.type = "agent_plan_delta",
                                 !.item_id = itemId, !.delta = delta,
                                 !.plan_text = next],
                             params, NoItem, itemId)>>,
              conv |-> [cv EXCEPT !.planBuffers = Put(@, itemId, next)]]
        ELSE Nothing(cv)
    ELSE IF method \in {"item/reasoning/summaryTextDelta", "item/reasoning/textDelta"} THEN
        LET id == Coalesce(itemId, "reasoning")
            delta == DeltaOf(params)
        IN
        IF delta # Null
        THEN [events |-> <<addStableFieldsItem(
                             [BlankMsg EXCEPT !.type = "agent_reasoning_delta",
                                 !.item_id = id, !.delta = delta,
                                 !.reasoning_stream = reasoningStream(method),
                                 !.summary_index =
                                     asNumber(Coalesce(params.summaryIndex,
                                                       params.summary_index))],
                             params, NoItem, id)>>,
              conv |-> [cv EXCEPT !.reasoningBuffers =
                           Put(@, id, Appended(@, id, delta))]]
        ELSE Nothing(cv)
    ELSE IF method = "item/commandExecution/outputDelta" THEN
        LET delta == OutputDeltaOf(params) IN
        IF itemId # Null /\ Truthy(delta)
        THEN [events |-> <<>>,
              conv |-> [cv EXCEPT !.commandOutputBuffers =
                           Put(@, itemId, Appended(@, itemId, delta))]]
        ELSE Nothing(cv)
    ELSE IF method = "item/fileChange/outputDelta" THEN
        LET delta == OutputDeltaOf(params) IN
        IF itemId # Null /\ Truthy(delta)
        THEN [events |-> <<addStableFieldsItem(
                             [BlankMsg EXCEPT !.type = "patch_apply_delta",
                                 !.item_id = itemId, !.delta = delta],
                             params, NoItem, itemId)>>,
              conv |-> [cv EXCEPT !.fileChangeOutputBuffers =
                           Put(@, itemId, Appended(@, itemId, delta))]]
        ELSE Nothing(cv)
    ELSE IF method \in {"item/started", "item/completed"} THEN
        handleItem(cv, method, params)
    ELSE [events |-> handleNotification(method, params), conv |-> cv]

(***************************************************************************)
(* handleCodexEvent: tool-call correlation.                                *)
(***************************************************************************)
IsTerminal(msg) == asString(msg.type) \in TerminalTypes

\* the call id of turn_plan_updated: `turn-plan:${turnId}`
PlanCallId(turnId) == "turn-plan:" \o turnId

\* turn_plan_updated: asString(msg.turn_id ?? msg.turnId) ?? randomUUID()
PlanUpdateTurnId(msg, n) ==
    IF MsgTurnId(msg) # Null THEN MsgTurnId(msg) ELSE FreshId("turn", n)

\* the category tag handed to extractCallId by the events that open a call
BeginPrefix ==
    [agent_plan_delta |-> "plan-delta", plan_item_started |-> "plan-item",
     exec_command_begin |-> "exec", exec_approval_request |-> "exec",
     patch_apply_begin |-> "patch", mcp_tool_call_begin |-> "mcp",
     collab_tool_call_begin |-> "collab", web_search_begin |-> "web-search",
     image_view_begin |-> "image-view", review_mode_entered |-> "review",
     context_compaction_started |-> "context-compaction"]

\* the category tag handed to extractCallId by the events that send a result
EndPrefix ==
    [plan_item_completed |-> "plan-item", exec_command_end |-> "exec",
     patch_apply_delta |-> "patch", patch_apply_end |-> "patch",
     mcp_tool_call_end |-> "mcp", collab_tool_call_end |-> "collab",
     web_search_end |-> "web-search", image_view_end |-> "image-view",
     review_mode_exited |-> "review",
     context_compaction_completed |-> "context-compaction"]

PlanEventTypes == {"turn_plan_updated", "agent_plan_delta", "plan_item_started"}

\* the event draws a random identifier for its turn id or call id
DrawsUuid(msg) ==
    \/ asString(msg.type) = "turn_plan_updated" /\ MsgTurnId(msg) = Null
    \/ asString(msg.type) \in (DOMAIN BeginPrefix) \cup (DOMAIN EndPrefix)
         /\ ~HasCallId(msg)

\* the call id of the tool-call the event sends, Null when it sends none
EmittedCall(msg, n) ==
    LET ty == asString(msg.type) IN
    IF ty = "turn_plan_updated" THEN PlanCallId(PlanUpdateTurnId(msg, n))
    ELSE IF ty \in DOMAIN BeginPrefix THEN extractCallId(msg, BeginPrefix[ty], n)
    ELSE Null

\* the plan call a terminal event closes, Null when there is none
TerminalPlanCall(map, msg) ==
    IF MsgTurnId(msg) # Null /\ MsgTurnId(msg) \in DOMAIN map
    THEN map[MsgTurnId(msg)] ELSE Null

\* the call id of the tool-call-result the event sends, Null when it sends none
EmittedResult(map, msg, n) ==
    LET ty == asString(msg.type) IN
    IF ty \in TerminalTypes THEN TerminalPlanCall(map, msg)
    ELSE IF ty \in DOMAIN EndPrefix THEN extractCallId(msg, EndPrefix[ty], n)
    ELSE Null

\* no tool-call-result
NoResult == [callId |-> Null, status |-> Null, error |-> Null, is_error |-> FALSE]

\* a closing result that never flags an error
TerminalResult_NeverError(map, msg) ==
    IF ~IsTerminal(msg) \/ TerminalPlanCall(map, msg) = Null THEN NoResult
    ELSE [callId |-> TerminalPlanCall(map, msg), status |-> asString(msg.type),
          error |-> asString(msg.error), is_error |-> FALSE]

\* the tool-call-result a terminal event closes the plan call of its turn
\* with: emitToolResult(planCallId, { status: msgType, error }, msg,
\* msgType === 'task_failed'); NoResult when it sends none
TerminalResult(map, msg) ==
    IF ~IsTerminal(msg) \/ TerminalPlanCall(map, msg) = Null THEN NoResult
    ELSE [callId |-> TerminalPlanCall(map, msg), status |-> asString(msg.type),
          error |-> asString(msg.error),
          is_error |-> asString(msg.type) = "task_failed"]

\* a terminal event that sends the result but keeps the entry of the turn
PlanMapAfterTerminal_KeepsEntry(map, msg) == map

\* planCallIdByTurn after a terminal event
PlanMapAfterTerminal(map, msg) ==
    IF TerminalPlanCall(map, msg) # Null THEN Drop(map, MsgTurnId(msg)) ELSE map

\* planCallIdByTurn after agent_plan_delta
PlanMapAfterDelta(map, msg, n) ==
    IF MsgTurnId(msg) # Null /\ MsgTurnId(msg) \notin DOMAIN map
    THEN Put(map, MsgTurnId(msg), extractCallId(msg, "plan-delta", n))
    ELSE map

\* planCallIdByTurn after the event
PlanMapAfter(map, msg, n) ==
    LET ty == asString(msg.type) IN
    IF ty \in TerminalTypes THEN PlanMapAfterTerminal(map, msg)
    ELSE IF ty = "turn_plan_updated"
         THEN Put(map, PlanUpdateTurnId(msg, n), PlanCallId(PlanUpdateTurnId(msg, n)))
    ELSE IF ty = "agent_plan_delta" THEN PlanMapAfterDelta(map, msg, n)
    ELSE map

\* a handler that leaves this.currentTurnId alone on a terminal event
TurnIdAfter_Kept(cur, msg) ==
    IF asString(msg.type) = "task_started" /\ MsgTurnId(msg) # Null
    THEN MsgTurnId(msg) ELSE cur

\* this.currentTurnId after the event
TurnIdAfter(cur, msg) ==
    LET ty == asString(msg.type) IN
    IF ty \in TerminalTypes THEN Null
    ELSE IF ty = "task_started" /\ MsgTurnId(msg) # Null THEN MsgTurnId(msg)
    ELSE cur

\* turnInFlight after the event
InFlightAfter(cur, msg, appServer) ==
    LET ty == asString(msg.type) IN
    IF ty = "task_started" /\ appServer THEN TRUE
    ELSE IF ty \in TerminalTypes /\ appServer THEN FALSE
    ELSE cur

\* session.thinking after the event
ThinkingAfter(cur, msg) ==
    LET ty == asString(msg.type) IN
    IF ty = "task_started" THEN TRUE
    ELSE IF ty \in TerminalTypes THEN FALSE
    ELSE cur

\* the collaborators after the event: a terminal event resets the diff
\* processor, section breaks, reasoning deltas and completed reasoning go
\* to the reasoning processor, turn_diff to the diff processor.  The
\* processors are known by their interface only: each is modelled by the
\* last call it received ("idle" after reset / abort / complete).
CollabAfter(c, msg) ==
    LET ty == asString(msg.type) IN
    IF ty \in TerminalTypes THEN [c EXCEPT !.diffProcessor = "idle"]
    ELSE IF ty = "agent_reasoning_section_break"
         THEN [c EXCEPT !.reasoningProcessor = "sectionBreak"]
    ELSE IF ty = "agent_reasoning_delta" /\ asString(msg.delta) # Null
         THEN [c EXCEPT !.reasoningProcessor = "streaming"]
    ELSE IF ty = "agent_reasoning" /\ asString(msg.text) # Null
         THEN [c EXCEPT !.reasoningProcessor = "idle"]
    ELSE IF ty = "turn_diff" /\ asString(msg.unified_diff) # Null
         THEN [c EXCEPT !.diffProcessor = "holding"]
    ELSE c

\* appServerEventConverter?.reset() of handleCodexEvent, on a terminal event
ConverterAfterEvent(cv, msg) ==
    IF asString(msg.type) \in TerminalTypes THEN reset(cv) ELSE cv

\* handleCodexEvent(msg), but for the converter (see ConverterAfterEvent)
handleCodexEvent(msg) ==
    LET ty == asString(msg.type)
        call == EmittedCall(msg, uuidCounter)
        res == EmittedResult(planCallIdByTurn, msg, uuidCounter)
    IN
    IF ty = Null THEN
        UNCHANGED <<currentThreadId, sessionId, currentTurnId, turnInFlight,
                    thinking, collab, emitterVars>>
    ELSE IF ty = "thread_started" THEN
        /\ currentThreadId' = Coalesce(MsgThreadId(msg), currentThreadId)
        /\ sessionId' = Coalesce(MsgThreadId(msg), sessionId)
        /\ UNCHANGED <<currentTurnId, turnInFlight, thinking, collab, emitterVars>>
    ELSE
        /\ currentTurnId' = TurnIdAfter(currentTurnId, msg)
        /\ turnInFlight' = InFlightAfter(turnInFlight, msg, useAppServer)
        /\ thinking' = ThinkingAfter(thinking, msg)
        /\ collab' = CollabAfter(collab, msg)
        /\ planCallIdByTurn' = PlanMapAfter(planCallIdByTurn, msg, uuidCounter)
        /\ toolCalls' = IF call # Null THEN Bump(toolCalls, call) ELSE toolCalls
        /\ toolResults' = IF res # Null THEN Bump(toolResults, res) ELSE toolResults
        /\ uuidCounter' = IF DrawsUuid(msg) THEN uuidCounter + 1 ELSE uuidCounter
        /\ UNCHANGED <<currentThreadId, sessionId>>

(***************************************************************************)
(* Feeding one canonical event of runtime turn t to handleCodexEvent, with *)
(* the observations the properties are stated on.                          *)
(***************************************************************************)
ObservePlan(t, msg) ==
    LET ty == asString(msg.type)
        call == EmittedCall(msg, uuidCounter)
    IN
    /\ callOwner' = IF call # Null /\ call \notin DOMAIN callOwner
                    THEN Put(callOwner, call, t) ELSE callOwner
    /\ planCalls' = IF call # Null /\ ty \in PlanEventTypes
                    THEN planCalls \cup {call} ELSE planCalls
    /\ planUpdated' = IF ty = "turn_plan_updated" /\ MsgTurnId(msg) # Null
                      THEN Bump(planUpdated, MsgTurnId(msg)) ELSE planUpdated
    /\ lastTerminal' = IF ty \in TerminalTypes
                       THEN Put(lastTerminal, t, [type |-> ty, turn_id |-> MsgTurnId(msg)])
                       ELSE lastTerminal

ObserveTurn(t, msg) ==
    terminalCount' = IF IsTerminal(msg) THEN Bump(terminalCount, t) ELSE terminalCount

\* an event of the emitter runs
Feed(t, msg) ==
    /\ handleCodexEvent(msg)
    /\ ObserveTurn(t, msg)
    /\ ObservePlan(t, msg)
    /\ hist' = [hist EXCEPT !.fed = msg,
                            !.closing = TerminalResult(planCallIdByTurn, msg)]

\* an event of the session loop runs
FeedTurn(t, msg) ==
    /\ handleCodexEvent(msg)
    /\ ObserveTurn(t, msg)
    /\ UNCHANGED <<lastTerminal, planUpdated, callOwner, planCalls>>

\* the turns the runtime announced whose terminal event was not processed yet
InFlightTurns ==
    {t \in DOMAIN rtTurn : rtTurn[t] = "running" /\ Count(terminalCount, t) = 0}

\* the turns the runtime is running
Running == {t \in DOMAIN rtTurn : rtTurn[t] = "running"}
Ended == {t \in DOMAIN rtTurn : rtTurn[t] = "ended"}

(***************************************************************************)
(* EmitterSpec: the runtime's canonical events of one or more turns, fed   *)
(* to handleCodexEvent in arrival order.  Events carry the fields the      *)
(* normalizer gives them (part_003): plan and command items have           *)
(* call_id = item_id, agent_plan_delta has item_id only, and the turn id   *)
(* is present when the notification carried one.                           *)
(***************************************************************************)
EmitterFrame ==
    UNCHANGED <<useAppServer, abortController, abortedScopes, shouldExit, queue,
                loopLocals, enqueued, abortReqs, corr, abortsAwaiting, lastCmd,
                interruptCalls>>

\* the permission adapter before registerAppServerPermissionHandlers: which
\* handlers are registered, the calls of permissionHandler.handleToolCall
\* and of the onUserInputRequest hook, the random ids drawn, the requests
\* whose handler awaits its answer (by arrival number), the replies sent,
\* and the last request answered with the tool call made for it and the reply
NoPermission ==
    [registered |-> "none", asked |-> 0, hooked |-> 0, uuids |-> 0,
     open |-> EmptyMap, replies |-> 0, answered |-> 0,
     method |-> Null, toolCallId |-> Null, toolName |-> Null, result |-> Null,
     reply |-> [decision |-> Null, answers |-> Null]]

\* no call of the converter yet
NoCall == [method |-> Null, params |-> BlankParams, events |-> <<>>]

InitHist ==
    [preCancelled |-> FALSE,    \* a wait or RPC was started on an aborted signal
     msgAborted |-> FALSE,      \* an abort cancelled a pending call of this message
     cmdAfterAbort |-> FALSE,   \* a command was issued for the message afterwards
     resume |-> "none",         \* outcome of this iteration's resumeThread
     lastInterrupt |-> "none",  \* outcome of the last settled interruptTurn
     ui |-> "none",             \* the last status message of a catch block
     restart |-> "none",        \* why the message was put back as pending
     swept |-> {},              \* what the finally block found to clean up
     call |-> NoCall,           \* the last call of the converter and its events
     deltas |-> EmptyMap,       \* item id -> the agentMessage deltas received since
                                \*   the last reset and the item's last completion
     permission |-> NoPermission,   \* the permission adapter and its last request
     fed |-> BlankMsg,          \* the last event fed to the emitter
     closing |-> NoResult,      \* the plan result that event sent as a terminal
                                \*   event, NoResult when it sent none
     fedTo |-> {},              \* the buffer entries that received a text since
                                \*   the last reset and their item's last completion
     submitted |-> EmptyMap,    \* message id -> startTurn / startSession /
                                \*   continueSession calls issued for it
     rsnFed |-> EmptyMap,       \* buffer key -> the reasoning deltas received, each
                                \*   with its stream
     rsnLast |-> <<>>,          \* the deltas the last completed reasoning item had
                                \*   received
     planFed |-> EmptyMap,      \* item id -> the seed text of the plan's start
                                \*   and the plan deltas received after it
     started |-> {},            \* items an item/started was received for
     begun |-> EmptyMap,        \* item id -> the command or change set of the
                                \*   item's start, until its completion or a reset
     stale |-> {}]              \* the map entries a reset cleared, until the
                                \*   item receives a delta or a start again

\* no outbound command issued in this iteration
NoCommand == [op |-> "none", msg |-> 0, thread |-> Null, cur |-> Null, busy |-> FALSE]

\* a queued user message batch; NoMessage is null
NoMessage == [id |-> 0, hash |-> Null]

\* the collaborators hold nothing
CleanCollab ==
    [permissionHandler |-> "idle", reasoningProcessor |-> "idle",
     diffProcessor |-> "idle"]

\* the state in which handleCodexEvent is installed on a created session
HandlerInit ==
    /\ useAppServer \in BOOLEAN
    /\ currentThreadId = OldThreadId /\ currentTurnId = Null
    /\ abortController = 0 /\ abortedScopes = {} /\ shouldExit = FALSE
    /\ sessionId = OldThreadId /\ thinking = FALSE /\ queue = <<>>
    /\ pc = "wait" /\ wasCreated = TRUE /\ currentModeHash = Null
    /\ pending = NoMessage /\ first = FALSE /\ turnInFlight = FALSE
    /\ message = NoMessage /\ rpcSignal = 0 /\ rpcTurn = Null /\ errKind = Null
    /\ resumeCandidate = Null /\ threadId = Null /\ collab = CleanCollab
    /\ converter = EmptyConverter
    /\ planCallIdByTurn = EmptyMap /\ toolCalls = EmptyMap
    /\ toolResults = EmptyMap /\ uuidCounter = 0
    /\ abortsAwaiting = 0
    /\ rtTurn = EmptyMap /\ enqueued = 0 /\ abortReqs = 0 /\ evCount = 0
    /\ terminalCount = EmptyMap /\ lastTerminal = EmptyMap
    /\ planUpdated = EmptyMap /\ callOwner = EmptyMap /\ planCalls = {}
    /\ lastCmd = NoCommand /\ interruptCalls = <<>> /\ hist = InitHist

\* no begin/end pair under observation
NoPair == [begin |-> BlankMsg, end |-> BlankMsg, stage |-> 2,
           beginId |-> Null, endId |-> Null]

EmitterInit ==
    /\ HandlerInit
    /\ corr = NoPair

\* an event reaches handleCodexEvent as the operating mode delivers it: in
\* app-server mode as the notification method(params), converted and
\* handled in one run of the notification handler (a notification the
\* converter gives no event for is not an event of the run); in MCP mode as
\* the raw event msg of the MCP client, and there is no converter
Deliver(t, method, params, msg) ==
    IF useAppServer THEN
        LET step == convert(converter, method, params) IN
        /\ step.events # <<>>
        /\ Feed(t, step.events[1])
        /\ converter' = ConverterAfterEvent(step.conv, step.events[1])
    ELSE
        /\ Feed(t, msg)
        /\ converter' = converter

\* turn/started
EmTaskStarted ==
    /\ evCount < MaxEvents
    /\ Cardinality(DOMAIN rtTurn) < MaxEmitterTurns
    /\ LET t == TurnName(Cardinality(DOMAIN rtTurn) + 1) IN
       /\ rtTurn' = Put(rtTurn, t, "running")
       /\ Deliver(t, "turn/started",
                  [BlankParams EXCEPT !.turn = [NoRecord EXCEPT !.present = TRUE,
                                                  !.id = t]],
                  [BlankMsg EXCEPT !.type = "task_started", !.turn_id = t])
    /\ evCount' = evCount + 1
    /\ EmitterFrame

\* a fed event of a running turn; a terminal event ends the turn for the
\* runtime
EmFeed(t, method, params, msg) ==
    /\ evCount < MaxEvents
    /\ t \in Running
    /\ Deliver(t, method, params, msg)
    /\ evCount' = evCount + 1
    /\ rtTurn' = IF IsTerminal(msg) THEN [rtTurn EXCEPT ![t] = "ended"] ELSE rtTurn
    /\ EmitterFrame

\* turn/plan/updated
EmPlanUpdated ==
    \E t \in Running : \E tid \in {Null, t} :
        EmFeed(t, "turn/plan/updated", [BlankParams EXCEPT !.turnId = tid],
               [BlankMsg EXCEPT !.type = "turn_plan_updated", !.turn_id = tid])

\* item/plan/delta
EmPlanDelta ==
    \E t \in Running, i \in ItemIds : \E tid \in {Null, t} :
        EmFeed(t, "item/plan/delta",
               [BlankParams EXCEPT !.turnId = tid, !.itemId = i, !.delta = "a"],
               [BlankMsg EXCEPT !.type = "agent_plan_delta", !.turn_id = tid,
                                !.item_id = i])

\* the notification and the event type of an item's start and completion
ItemMethods == {<<"item/started", "started", "begin">>,
                <<"item/completed", "completed", "end">>}

\* item/started, item/completed of a plan item
EmPlanItem ==
    \E t \in Running, i \in ItemIds, m \in ItemMethods :
        EmFeed(t, m[1],
               [BlankParams EXCEPT !.turnId = t,
                    !.item = [NoItem EXCEPT !.present = TRUE, !.id = i, !.type = "plan"]],
               [BlankMsg EXCEPT !.type = "plan_item_" \o m[2], !.turn_id = t,
                                !.call_id = i, !.item_id = i])

\* item/started, item/completed of a command item
EmExec ==
    \E t \in Running, m \in ItemMethods :
        EmFeed(t, m[1],
               [BlankParams EXCEPT !.turnId = t,
                    !.item = [NoItem EXCEPT !.present = TRUE, !.id = "cmd1",
                                            !.type = "commandExecution"]],
               [BlankMsg EXCEPT !.type = "exec_command_" \o m[3], !.turn_id = t,
                                !.call_id = "cmd1", !.item_id = "cmd1"])

\* the status of turn/completed that gives the terminal event type
StatusOfTerminal ==
    [task_complete |-> "completed", turn_aborted |-> "interrupted",
     task_failed |-> "failed"]

\* turn/completed (with the turn id) or an MCP terminal event (without)
EmTerminal ==
    \E t \in Running, ty \in TerminalTypes : \E tid \in {Null, t} :
        EmFeed(t, "turn/completed",
               [BlankParams EXCEPT !.turn = [NoRecord EXCEPT !.present = TRUE,
                                               !.id = tid, !.status = StatusOfTerminal[ty]]],
               [BlankMsg EXCEPT !.type = ty, !.turn_id = tid])

EmitterNext ==
    \/ EmTaskStarted
    \/ EmPlanUpdated
    \/ EmPlanDelta
    \/ EmPlanItem
    \/ EmExec
    \/ EmTerminal

EmitterSpec == EmitterInit /\ [][EmitterNext]_vars

(***************************************************************************)
(* CorrelationSpec: one begin event and one end event that describe the    *)
(* same item (same id fields), handed to handleCodexEvent one after the    *)
(* other as raw events of the MCP client (the events of the app-server     *)
(* converter always carry call_id = item_id, the non-empty id of the       *)
(* item).  Each id field is absent or one of two non-empty strings, so     *)
(* that the two spellings of a field can disagree.                         *)
(***************************************************************************)
\* the begin / end event types that map directly to a tool-call pair
PairTypes ==
    {<<"plan_item_started", "plan_item_completed">>,
     <<"exec_command_begin", "exec_command_end">>,
     <<"patch_apply_begin", "patch_apply_end">>,
     <<"mcp_tool_call_begin", "mcp_tool_call_end">>,
     <<"collab_tool_call_begin", "collab_tool_call_end">>,
     <<"web_search_begin", "web_search_end">>,
     <<"image_view_begin", "image_view_end">>,
     <<"review_mode_entered", "review_mode_exited">>,
     <<"context_compaction_started", "context_compaction_completed">>}

CallIdValues == {Null, "c1", "c2"}
ItemIdValues == {Null, "i1", "i2"}

CorrInit ==
    /\ HandlerInit
    /\ useAppServer = FALSE
    /\ \E p \in PairTypes, c1 \in CallIdValues, c2 \in CallIdValues,
          i1 \in ItemIdValues, i2 \in ItemIdValues :
         LET ids == [BlankMsg EXCEPT !.call_id = c1, !.callId = c2,
                                     !.item_id = i1, !.itemId = i2]
         IN corr = [begin |-> [ids EXCEPT !.type = p[1]],
                    end |-> [ids EXCEPT !.type = p[2]],
                    stage |-> 0, beginId |-> Null, endId |-> Null]

CorrFrame ==
    UNCHANGED <<useAppServer, abortController, abortedScopes, shouldExit, queue,
                loopLocals, converter, rtTurn, enqueued, abortReqs, evCount, abortsAwaiting,
                histVars>>

CorrBegin ==
    /\ corr.stage = 0
    /\ handleCodexEvent(corr.begin)
    /\ corr' = [corr EXCEPT !.stage = 1,
                            !.beginId = EmittedCall(corr.begin, uuidCounter)]
    /\ CorrFrame

CorrEnd ==
    /\ corr.stage = 1
    /\ handleCodexEvent(corr.end)
    /\ corr' = [corr EXCEPT !.stage = 2,
                            !.endId = EmittedResult(planCallIdByTurn, corr.end, uuidCounter)]
    /\ CorrFrame

CorrNext == CorrBegin \/ CorrEnd

CorrelationSpec == CorrInit /\ [][CorrNext]_vars

(***************************************************************************)
(* C4  Idempotent correlation.  For a begin/end pair that carries the same *)
(* item id, the call id of the tool-call equals the call id of the         *)
(* tool-call-result; and the call id is the explicit call id when there is *)
(* one, else the item id when there is one, else a fresh prefixed id.      *)
(***************************************************************************)
\* the event's explicit call id, Null when it has none: the head of the
\* chain of extractCallId, asString(source.call_id ?? source.callId ...)
ExplicitCallId(msg) == asString(Coalesce(msg.call_id, msg.callId))

\* the event's item id, Null when it has none: the tail of the chain of
\* extractCallId, asString(... source.item_id ?? source.itemId)
CarriedItemId(msg) == asString(Coalesce(msg.item_id, msg.itemId))

\* the pair under observation has been handled, begin and end
PairHandled == corr # NoPair /\ corr.stage = 2

\* C4: once both events of a pair with the same id fields are handled, the
\* tool-call and the tool-call-result have the same call id whenever the
\* pair carries an item id; that call id is the explicit call id if the
\* pair has one, else its item id; a pair with neither gets two freshly
\* drawn ids with the prefix of its event category.
Thm_C4_IdempotentCorrelation ==
    PairHandled =>
        LET b == corr.begin
            e == corr.end
        IN /\ CarriedItemId(b) # Null => corr.beginId = corr.endId
           /\ ExplicitCallId(b) # Null =>
                  /\ corr.beginId = ExplicitCallId(b)
                  /\ corr.endId = ExplicitCallId(e)
           /\ (ExplicitCallId(b) = Null /\ CarriedItemId(b) # Null) =>
                  /\ corr.beginId = CarriedItemId(b)
                  /\ corr.endId = CarriedItemId(e)
           /\ (ExplicitCallId(b) = Null /\ CarriedItemId(b) = Null) =>
                  /\ corr.beginId = FreshId(BeginPrefix[b.type], 0)
                  /\ corr.endId = FreshId(EndPrefix[e.type], 1)

\* C4: an exec pair whose two id spellings disagree (call_id absent, callId
\* "c2"; item_id "i1", itemId "i2") has been handled and both messages have
\* the call id "c2"
Wit_C4_IdempotentCorrelation ==
    /\ PairHandled
    /\ corr.begin.type = "exec_command_begin"
    /\ corr.begin.call_id = Null /\ corr.begin.callId = "c2"
    /\ corr.begin.item_id = "i1" /\ corr.begin.itemId = "i2"
    /\ corr.beginId = "c2" /\ corr.endId = "c2"
    /\ "c2" \in DOMAIN toolCalls /\ "c2" \in DOMAIN toolResults

(***************************************************************************)
(* C1  Plan lifecycle.  When exactly one turn_plan_updated of turn T was   *)
(* processed and T ended with a task_complete carrying T, exactly one      *)
(* tool-call and exactly one tool-call-result were sent with the call id   *)
(* turn-plan:T, and the plan-call map has no entry for T.                  *)
(***************************************************************************)
PlanLifecycleCase(t) ==
    /\ t \in Ended
    /\ Count(planUpdated, t) = 1
    /\ lastTerminal[t] = [type |-> "task_complete", turn_id |-> t]

Thm_C1_PlanLifecycle ==
    \A t \in DOMAIN rtTurn :
        PlanLifecycleCase(t) =>
            /\ Count(toolCalls, PlanCallId(t)) = 1
            /\ Count(toolResults, PlanCallId(t)) = 1
            /\ t \notin DOMAIN planCallIdByTurn

Wit_C1_PlanLifecycle ==
    \E t \in DOMAIN rtTurn :
        /\ PlanLifecycleCase(t)
        /\ Count(toolCalls, PlanCallId(t)) = 1
        /\ Count(toolResults, PlanCallId(t)) = 1

(***************************************************************************)
(* C2  No tool-call is left open past turn end: once the terminal event of *)
(* turn T has been processed, every call id whose tool-call was sent       *)
(* during T has received a tool-call-result.                               *)
(***************************************************************************)
CE_C2_NoOpenCallPastTurnEnd ==
    \A c \in DOMAIN toolCalls :
        callOwner[c] \in Ended => Count(toolResults, c) >= 1

(***************************************************************************)
(* C3  A plan tool-call is closed exactly once, never twice: once the      *)
(* terminal event of turn T has been processed, no plan call id opened     *)
(* during T has received a second tool-call-result.  (That it has received *)
(* a first one is C2.)                                                     *)
(***************************************************************************)
CE_C3_PlanCallClosedOnce ==
    \A c \in planCalls :
        callOwner[c] \in Ended => Count(toolResults, c) <= 1

(***************************************************************************)
(* runMainLoop.                                                            *)
(***************************************************************************)
\* the positions where the loop is suspended in an await
RpcPcs == {"resume", "startThread", "startTurnNew", "startTurn",
           "startSession", "continueSession"}
AwaitPcs == RpcPcs \cup {"wait"}
\* the positions where the callbacks run: the awaits of the loop, and "done",
\* where the loop has ended and cleanup() awaits the disconnect of the
\* client (the abort handlers are still registered and the client still
\* delivers notifications and events)
CallbackPcs == AwaitPcs \cup {"done"}
AtSuspension == pc \in CallbackPcs \cup {"cleaned"}

\* observations made when the loop starts a wait or an RPC on the current scope
HistIssue(h, op) ==
    [h EXCEPT !.preCancelled = @ \/ abortController \in abortedScopes,
              !.cmdAfterAbort = @ \/ (op \in {"startThread", "startTurn"}
                                        /\ h.msgAborted),
              !.submitted = IF op \in {"startTurn", "startSession", "continueSession"}
                            THEN Bump(@, message.id) ELSE @]

\* an outbound command of the loop for the current message: the thread id
\* it names, this.currentThreadId when it is issued, and whether a turn
\* started before is still in flight
Command(op, thread, cur) ==
    [op |-> op, msg |-> message.id, thread |-> thread, cur |-> cur,
     busy |-> InFlightTurns # {}]

\* the observations of one iteration start again at the top of the loop
IterHist(h) ==
    [h EXCEPT !.msgAborted = FALSE, !.resume = "none", !.lastInterrupt = "none",
              !.ui = "none", !.restart = "none", !.swept = {}]

\* while (!this.shouldExit) { message = pending; pending = null;
\*   if (!message) { waitSignal = this.abortController.signal; await wait... } }
\* The locals of the previous iteration are out of scope.
LoopTop ==
    /\ pc = "top"
    /\ IF shouldExit THEN
           /\ pc' = "done" /\ message' = NoMessage
           /\ hist' = IterHist(hist)
           /\ UNCHANGED <<pending, rpcSignal>>
       ELSE IF pending # NoMessage THEN
           /\ message' = pending /\ pending' = NoMessage /\ pc' = "dispatch"
           /\ hist' = [hist EXCEPT !.resume = "none", !.lastInterrupt = "none",
                                   !.ui = "none", !.swept = {}]
           /\ UNCHANGED rpcSignal
       ELSE
           /\ message' = NoMessage /\ rpcSignal' = abortController /\ pc' = "wait"
           /\ hist' = IterHist(HistIssue(hist, "wait"))
           /\ UNCHANGED pending
    /\ rpcTurn' = Null /\ errKind' = Null /\ resumeCandidate' = Null
    /\ threadId' = Null /\ lastCmd' = NoCommand
    /\ UNCHANGED <<launcherVars, sessionVars, wasCreated, currentModeHash, first,
                   turnInFlight, collab, converter, emitterVars, envVars, terminalCount,
                   lastTerminal, planUpdated, callOwner, planCalls, interruptCalls>>

\* waitForMessagesAndGetAsString returned a batch
WaitBatch ==
    /\ pc = "wait" /\ rpcSignal \notin abortedScopes /\ queue # <<>>
    /\ message' = Head(queue) /\ queue' = Tail(queue) /\ pc' = "dispatch"
    /\ UNCHANGED <<launcherVars, sessionId, thinking, wasCreated, currentModeHash,
                   pending, first, turnInFlight, rpcSignal, rpcTurn, errKind,
                   resumeCandidate, threadId, collab, converter, emitterVars, envVars, histVars>>

\* a loop that ends whenever the wait returns nothing
AfterIdleCancel_Break(aborted, exit) == "done"

\* if (!batch) { if (waitSignal.aborted && !this.shouldExit) continue; break }
AfterIdleCancel(aborted, exit) == IF aborted /\ ~exit THEN "top" ELSE "done"

\* waitForMessagesAndGetAsString returned null because its signal was aborted
WaitCancelled ==
    /\ pc = "wait" /\ rpcSignal \in abortedScopes
    /\ pc' = AfterIdleCancel(TRUE, shouldExit)
    /\ UNCHANGED <<launcherVars, sessionVars, wasCreated, currentModeHash, pending,
                   first, turnInFlight, message, rpcSignal, rpcTurn, errKind,
                   resumeCandidate, threadId, collab, converter, emitterVars, envVars, histVars>>

\* waitForMessagesAndGetAsString returned null though its signal is not
\* aborted (the queue, known by its interface only, may give no batch): break
WaitEnded ==
    /\ pc = "wait" /\ rpcSignal \notin abortedScopes /\ queue = <<>>
    /\ pc' = AfterIdleCancel(FALSE, shouldExit)
    /\ UNCHANGED <<launcherVars, sessionVars, wasCreated, currentModeHash, pending,
                   first, turnInFlight, message, rpcSignal, rpcTurn, errKind,
                   resumeCandidate, threadId, collab, converter, emitterVars, envVars, histVars>>

\* the mode hash of the message differs from the one the MCP session was made with
ModeChanged ==
    ~useAppServer /\ wasCreated /\ currentModeHash # Null
        /\ message.hash # currentModeHash

\* a mode change that forgets the message instead of keeping it
PendingAfterModeChange_Dropped(msg) == NoMessage

\* pending = message
PendingAfterModeChange(msg) == msg

\* the name of the next turn the runtime opens
NextTurn == TurnName(Cardinality(DOMAIN rtTurn) + 1)

\* a loop that starts a thread whatever the resume attempt gave
NeedsStartThread_Always(tid) == TRUE

\* startThread is called when resume left no thread id
NeedsStartThread(tid) == tid = Null

\* from the dequeued message to the first await of the iteration (or to the
\* `continue` of the mode-change and missing-thread restarts)
Dispatch ==
    /\ pc = "dispatch"
    /\ IF ModeChanged THEN
           /\ wasCreated' = FALSE /\ currentModeHash' = Null
           /\ pending' = PendingAfterModeChange(message)
           /\ collab' = CleanCollab /\ thinking' = FALSE /\ pc' = "top"
           /\ hist' = [hist EXCEPT !.restart = "mode"]
           /\ UNCHANGED <<converter, turnInFlight, rpcSignal, rpcTurn, resumeCandidate,
                          threadId, rtTurn, lastCmd>>
       ELSE
           /\ currentModeHash' = message.hash
           /\ IF ~wasCreated /\ useAppServer THEN
                  /\ resumeCandidate' = sessionId
                  /\ threadId' = Null
                  /\ IF asString(sessionId) # Null THEN
                         /\ pc' = "resume"
                         /\ lastCmd' = Command("resumeThread", asString(sessionId), currentThreadId)
                         /\ hist' = [HistIssue(hist, "resumeThread") EXCEPT !.resume = "pending"]
                     ELSE
                         /\ pc' = "startThread"
                         /\ lastCmd' = Command("startThread", Null, currentThreadId)
                         /\ hist' = [HistIssue(hist, "startThread") EXCEPT !.resume = "none"]
                  /\ rpcSignal' = abortController
                  /\ UNCHANGED <<wasCreated, pending, turnInFlight, rpcTurn, rtTurn,
                                 collab, converter, thinking>>
              ELSE IF ~wasCreated THEN
                  /\ pc' = "startSession" /\ rpcSignal' = abortController
                  /\ rpcTurn' = NextTurn /\ rtTurn' = Put(rtTurn, NextTurn, "requested")
                  /\ lastCmd' = Command("startSession", Null, currentThreadId)
                  /\ hist' = HistIssue(hist, "startSession")
                  /\ UNCHANGED <<wasCreated, pending, turnInFlight,
                                 resumeCandidate, threadId, collab, converter, thinking>>
              ELSE IF useAppServer /\ currentThreadId = Null THEN
                  /\ wasCreated' = FALSE /\ pending' = message /\ pc' = "finally"
                  /\ hist' = [hist EXCEPT !.restart = "thread"]
                  /\ UNCHANGED <<turnInFlight, rpcSignal, rpcTurn, rtTurn, lastCmd,
                                 resumeCandidate, threadId, collab, converter, thinking>>
              ELSE IF useAppServer THEN
                  /\ turnInFlight' = TRUE
                  /\ pc' = "startTurn" /\ rpcSignal' = abortController
                  /\ rpcTurn' = NextTurn /\ rtTurn' = Put(rtTurn, NextTurn, "requested")
                  /\ lastCmd' = Command("startTurn", currentThreadId, currentThreadId)
                  /\ hist' = HistIssue(hist, "startTurn")
                  /\ UNCHANGED <<wasCreated, pending, resumeCandidate, threadId,
                                 collab, converter, thinking>>
              ELSE
                  /\ pc' = "continueSession" /\ rpcSignal' = abortController
                  /\ rpcTurn' = NextTurn /\ rtTurn' = Put(rtTurn, NextTurn, "requested")
                  /\ lastCmd' = Command("continueSession", Null, currentThreadId)
                  /\ hist' = HistIssue(hist, "continueSession")
                  /\ UNCHANGED <<wasCreated, pending, turnInFlight,
                                 resumeCandidate, threadId, collab, converter, thinking>>
    /\ errKind' = Null
    /\ UNCHANGED <<launcherVars, sessionId, queue, first, message, emitterVars,
                   enqueued, abortReqs, evCount, corr, abortsAwaiting, terminalCount,
                   lastTerminal, planUpdated, callOwner, planCalls, interruptCalls>>

\* a loop that starts the turn without recording the thread
ThreadIdAtTurnStart_Kept(cur, tid) == cur

\* this.currentThreadId = threadId, before the turn is started
ThreadIdAtTurnStart(cur, tid) == tid

\* after the resume / start of the thread: record it, then startTurn
AfterThread(tid) ==
    /\ currentThreadId' = ThreadIdAtTurnStart(currentThreadId, tid)
    /\ sessionId' = tid
    /\ turnInFlight' = TRUE
    /\ pc' = "startTurnNew" /\ rpcSignal' = abortController
    /\ rpcTurn' = NextTurn /\ rtTurn' = Put(rtTurn, NextTurn, "requested")
    /\ lastCmd' = Command("startTurn", tid, ThreadIdAtTurnStart(currentThreadId, tid))

\* after the resume attempt: startThread when it left no thread id
AfterResume(tid, outcome) ==
    /\ threadId' = tid
    /\ IF NeedsStartThread(tid) THEN
           /\ pc' = "startThread" /\ rpcSignal' = abortController
           /\ lastCmd' = Command("startThread", Null, currentThreadId)
           /\ hist' = [HistIssue(hist, "startThread") EXCEPT !.resume = outcome]
           /\ UNCHANGED <<currentThreadId, sessionId, turnInFlight, rpcTurn, rtTurn>>
       ELSE
           /\ AfterThread(tid)
           /\ hist' = [HistIssue(hist, "startTurn") EXCEPT !.resume = outcome]
    /\ UNCHANGED <<useAppServer, currentTurnId, abortController, abortedScopes,
                   shouldExit, thinking, queue, wasCreated, currentModeHash, pending,
                   first, message, errKind, resumeCandidate, collab, converter, emitterVars,
                   enqueued, abortReqs, evCount, corr, abortsAwaiting, terminalCount,
                   lastTerminal, planUpdated, callOwner, planCalls, interruptCalls>>

\* resumeThread resolved: threadId = asString(resumeThread?.id) ?? resumeCandidate
ResumeResolved ==
    /\ pc = "resume" /\ rpcSignal \notin abortedScopes
    /\ \E resp \in {Null, resumeCandidate} :
         AfterResume(Coalesce(asString(resp), resumeCandidate), "ok")

\* resumeThread rejected by the runtime: caught, logged
ResumeRejected ==
    /\ pc = "resume" /\ rpcSignal \notin abortedScopes
    /\ AfterResume(Null, "failed")

\* resumeThread rejected because its signal was aborted: caught by the same catch
ResumeCancelled ==
    /\ pc = "resume" /\ rpcSignal \in abortedScopes
    /\ AfterResume(Null, "failed")

\* startThread resolved: a response without thread.id throws
StartThreadResolved ==
    /\ pc = "startThread" /\ rpcSignal \notin abortedScopes
    /\ \E resp \in {NewThreadId, Null} :
         IF asString(resp) # Null THEN
             /\ threadId' = resp
             /\ AfterThread(resp)
             /\ hist' = HistIssue(hist, "startTurn")
             /\ UNCHANGED errKind
         ELSE
             /\ errKind' = "error" /\ pc' = "catch"
             /\ UNCHANGED <<currentThreadId, sessionId, turnInFlight, rpcSignal,
                            rpcTurn, rtTurn, lastCmd, hist, threadId>>
    /\ UNCHANGED <<useAppServer, currentTurnId, abortController, abortedScopes,
                   shouldExit, thinking, queue, wasCreated, currentModeHash, pending,
                   first, message, resumeCandidate, collab, converter, emitterVars,
                   enqueued, abortReqs, evCount, corr, abortsAwaiting, terminalCount,
                   lastTerminal, planUpdated, callOwner, planCalls, interruptCalls>>

\* startTurn resolved: the response may carry the turn id
StartTurnResolved ==
    /\ pc \in {"startTurnNew", "startTurn"} /\ rpcSignal \notin abortedScopes
    /\ \E resp \in {Null, rpcTurn} :
         currentTurnId' = IF asString(resp) # Null THEN resp ELSE currentTurnId
    /\ wasCreated' = IF pc = "startTurnNew" THEN TRUE ELSE wasCreated
    /\ first' = IF pc = "startTurnNew" THEN FALSE ELSE first
    /\ pc' = "finally"
    /\ UNCHANGED <<useAppServer, currentThreadId, abortController, abortedScopes, hist,
                   shouldExit, sessionVars, currentModeHash, pending, turnInFlight,
                   message, rpcSignal, rpcTurn, errKind, resumeCandidate, threadId,
                   collab, converter, emitterVars, envVars, terminalCount, lastTerminal,
                   planUpdated, callOwner, planCalls, lastCmd, interruptCalls>>

\* startSession / continueSession resolved, then syncSessionId()
SessionResolved ==
    /\ pc \in {"startSession", "continueSession"} /\ rpcSignal \notin abortedScopes
    /\ rtTurn[rpcTurn] = "ended"
    /\ \E sid \in {Null, OldThreadId} :
         sessionId' = IF sid # Null /\ sid # sessionId THEN sid ELSE sessionId
    /\ wasCreated' = IF pc = "startSession" THEN TRUE ELSE wasCreated
    /\ first' = IF pc = "startSession" THEN FALSE ELSE first
    /\ pc' = "finally"
    /\ UNCHANGED <<launcherVars, thinking, queue, currentModeHash, pending,
                   turnInFlight, message, rpcSignal, rpcTurn, errKind,
                   resumeCandidate, threadId, collab, converter, emitterVars, envVars, histVars>>

\* any call but resumeThread rejected by the runtime: thrown to the catch block
RpcRejected ==
    /\ pc \in RpcPcs \ {"resume"} /\ rpcSignal \notin abortedScopes
    /\ errKind' = "error" /\ pc' = "catch"
    /\ rtTurn' = IF rpcTurn # Null /\ rtTurn[rpcTurn] = "requested"
                 THEN [rtTurn EXCEPT ![rpcTurn] = "refused"] ELSE rtTurn
    /\ UNCHANGED <<launcherVars, sessionVars, wasCreated, currentModeHash, pending,
                   first, turnInFlight, message, rpcSignal, rpcTurn,
                   resumeCandidate, threadId, collab, converter, emitterVars, enqueued,
                   abortReqs, evCount, corr, abortsAwaiting, histVars>>

\* any call but resumeThread rejected with AbortError: its signal was aborted
RpcCancelled ==
    /\ pc \in RpcPcs \ {"resume"} /\ rpcSignal \in abortedScopes
    /\ errKind' = "abort" /\ pc' = "catch"
    /\ UNCHANGED <<launcherVars, sessionVars, wasCreated, currentModeHash, pending,
                   first, turnInFlight, message, rpcSignal, rpcTurn,
                   resumeCandidate, threadId, collab, converter, emitterVars, envVars, histVars>>

\* a catch block that leaves the session marked as created
CreatedAfterFailure_Kept(appServer, created) == created

\* if (useAppServer) { ...; wasCreated = false }
CreatedAfterFailure(appServer, created) == IF appServer THEN FALSE ELSE created

\* a catch block that marks the session not created after an abort in
\* either mode
CreatedAfterAbort_Cleared(appServer, created) == FALSE

\* if (!useAppServer) { wasCreated = false; ... }
CreatedAfterAbort(appServer, created) == IF ~appServer THEN FALSE ELSE created

\* a catch block that keeps the message for the next iteration
PendingAfterCatch_Retry(p, msg) == msg

\* the catch block does not assign pending: the message of a failed or
\* cancelled iteration is dropped with the iteration's locals
PendingAfterCatch(p, msg) == p

\* catch (error) { ... }
Catch ==
    /\ pc = "catch"
    /\ turnInFlight' = IF useAppServer THEN FALSE ELSE turnInFlight
    /\ IF errKind = "abort" THEN
           /\ wasCreated' = CreatedAfterAbort(useAppServer, wasCreated)
           /\ currentModeHash' = IF ~useAppServer THEN Null ELSE currentModeHash
           /\ hist' = [hist EXCEPT !.ui = "Aborted by user"]
           /\ UNCHANGED <<currentTurnId, currentThreadId>>
       ELSE
           /\ currentTurnId' = IF useAppServer THEN Null ELSE currentTurnId
           /\ currentThreadId' = IF useAppServer THEN Null ELSE currentThreadId
           /\ wasCreated' = CreatedAfterFailure(useAppServer, wasCreated)
           /\ hist' = [hist EXCEPT !.ui = "Process exited unexpectedly"]
           /\ UNCHANGED currentModeHash
    /\ pc' = "finally"
    /\ pending' = PendingAfterCatch(pending, message)
    /\ UNCHANGED <<useAppServer, abortController, abortedScopes, shouldExit,
                   sessionVars, first, message, rpcSignal, rpcTurn, errKind,
                   resumeCandidate, threadId, collab, converter, emitterVars, envVars,
                   terminalCount, lastTerminal, planUpdated, callOwner, planCalls,
                   lastCmd, interruptCalls>>

\* what the collaborators, the converter and the session hold at a moment
Held(c, cv, th) ==
    {k \in {"permissionHandler", "reasoningProcessor", "diffProcessor"} :
        c[k] # CleanCollab[k]}
    \cup (IF cv # EmptyConverter THEN {"converter"} ELSE {})
    \cup (IF th THEN {"thinking"} ELSE {})

\* a finally block that leaves the converter as it is
ConverterAfterFinally_Kept(cv) == cv

\* appServerEventConverter?.reset() of the finally block (without a
\* converter, in MCP mode, the buffers of the model stay empty)
ConverterAfterFinally(cv) == reset(cv)

\* finally { permissionHandler.reset(); reasoningProcessor.abort();
\*   diffProcessor.reset(); ...; session.onThinkingChange(false); ... }
Finally ==
    /\ pc = "finally"
    /\ collab' = CleanCollab
    /\ converter' = ConverterAfterFinally(converter)
    /\ thinking' = FALSE
    /\ pc' = "top"
    /\ hist' = [hist EXCEPT !.swept = Held(collab, converter, thinking)]
    /\ UNCHANGED <<launcherVars, sessionId, queue, wasCreated, currentModeHash,
                   pending, first, turnInFlight, message, rpcSignal, rpcTurn, errKind,
                   resumeCandidate, threadId, emitterVars, envVars, terminalCount,
                   lastTerminal, planUpdated, callOwner, planCalls, lastCmd,
                   interruptCalls>>

\* cleanup(), after the loop has ended, from the moment the awaited
\* disconnect of the client has settled: the abort handlers are cleared, and
\* permissionHandler.reset(), reasoningProcessor.abort() and
\* diffProcessor.reset() are called.  Up to there (pc = "done") the
\* callbacks still run.
Cleanup ==
    /\ pc = "done"
    /\ pc' = "cleaned"
    /\ collab' = CleanCollab
    /\ UNCHANGED <<launcherVars, sessionVars, wasCreated, currentModeHash, pending,
                   first, turnInFlight, message, rpcSignal, rpcTurn, errKind,
                   resumeCandidate, threadId, converter, emitterVars, envVars, histVars>>

(***************************************************************************)
(* handleAbort.                                                            *)
(***************************************************************************)
\* interruptTurn is called when the thread and the turn are both known
InterruptNeeded(thread, turn) == thread # Null /\ turn # Null

\* a handleAbort without the inner try / catch: a failed interruptTurn skips
\* to the finally block
InterruptCaught_NoInnerCatch(ok) == ok

\* try { await interruptTurn(...) } catch { log }: the sequence goes on
\* whether the call succeeded or not
InterruptCaught(ok) == TRUE

\* a handleAbort that keeps the aborted controller
ScopeAfterAbort_KeepsScope(scope) == scope

\* finally { this.abortController = new AbortController() }
ScopeAfterAbort(scope) == scope + 1

\* the abort sequence after the interrupt step; goesOn is false when an
\* exception skips to the finally block
AbortSequence(goesOn) ==
    /\ currentTurnId' = IF useAppServer /\ goesOn THEN Null ELSE currentTurnId
    /\ abortedScopes' = IF goesOn THEN abortedScopes \cup {abortController}
                        ELSE abortedScopes
    /\ queue' = IF goesOn THEN <<>> ELSE queue
    /\ collab' = IF goesOn THEN CleanCollab ELSE collab
    /\ converter' = converter
    /\ abortController' = ScopeAfterAbort(abortController)

\* the abort of the current scope cancels the pending call of the loop
CancelsPendingCall == pc \in RpcPcs /\ rpcSignal = abortController

\* onAbort / onSwitch / onExit up to the first await or to the end
AbortRequest ==
    /\ pc \in CallbackPcs /\ abortReqs < MaxAborts
    /\ abortReqs' = abortReqs + 1
    /\ \E kind \in {"abort", "exit", "switch"} :
         shouldExit' = (shouldExit \/ kind # "abort")
    /\ IF useAppServer /\ InterruptNeeded(currentThreadId, currentTurnId) THEN
           /\ interruptCalls' = Append(interruptCalls,
                  [threadId |-> currentThreadId, turnId |-> currentTurnId])
           /\ abortsAwaiting' = abortsAwaiting + 1
           /\ UNCHANGED <<currentTurnId, abortedScopes, queue, collab, converter,
                          abortController, hist>>
       ELSE
           /\ AbortSequence(TRUE)
           /\ hist' = [hist EXCEPT !.msgAborted = @ \/ CancelsPendingCall]
           /\ UNCHANGED <<interruptCalls, abortsAwaiting>>
    /\ UNCHANGED <<useAppServer, currentThreadId, sessionId, thinking, loopVars,
                   emitterVars, rtTurn, enqueued, evCount, corr, terminalCount,
                   lastTerminal, planUpdated, callOwner, planCalls, lastCmd>>

\* interruptTurn settled: the rest of handleAbort
InterruptSettled ==
    /\ AtSuspension /\ abortsAwaiting > 0
    /\ abortsAwaiting' = abortsAwaiting - 1
    /\ \E ok \in BOOLEAN :
         /\ AbortSequence(ok \/ InterruptCaught(ok))
         /\ hist' = [hist EXCEPT
                !.msgAborted = @ \/ ((ok \/ InterruptCaught(ok)) /\ CancelsPendingCall),
                !.lastInterrupt = IF ok THEN "ok" ELSE "failed"]
    /\ UNCHANGED <<useAppServer, currentThreadId, shouldExit, sessionId, thinking,
                   loopVars, emitterVars, rtTurn, enqueued, abortReqs, evCount, corr,
                   terminalCount, lastTerminal, planUpdated, callOwner, planCalls,
                   lastCmd, interruptCalls>>

(***************************************************************************)
(* The user and the runtime.                                               *)
(***************************************************************************)
\* the user sends a message: one more batch in session.queue
Enqueue ==
    /\ pc \in CallbackPcs /\ enqueued < MaxMessages
    /\ enqueued' = enqueued + 1
    /\ \E h \in (IF useAppServer THEN {"h1"} ELSE ModeHashes) :
         queue' = Append(queue, [id |-> enqueued + 1, hash |-> h])
    /\ UNCHANGED <<launcherVars, sessionId, thinking, loopVars, collab, converter, emitterVars,
                   rtTurn, abortReqs, evCount, corr, abortsAwaiting, histVars>>

\* what stays as it is when a notification or a raw event is handled
NotifyFrame ==
    UNCHANGED <<useAppServer, abortController, abortedScopes, shouldExit, queue,
                loopLocals, enqueued, abortReqs, evCount, corr, abortsAwaiting,
                lastCmd, interruptCalls>>

\* setNotificationHandler callback: convert, then handle each event
Notify(t, method, params) ==
    LET step == convert(converter, method, params)
        events == step.events
    IN
    IF events = <<>> THEN
        /\ converter' = step.conv
        /\ UNCHANGED <<currentThreadId, currentTurnId, sessionId, thinking, turnInFlight,
                       collab, emitterVars, terminalCount, lastTerminal, planUpdated,
                       callOwner, planCalls>>
    ELSE
        /\ converter' = ConverterAfterEvent(step.conv, events[1])
        /\ FeedTurn(t, events[1])

\* thread/started { thread: { id } }, before the response to startThread
NotifyThreadStarted ==
    /\ useAppServer /\ pc = "startThread"
    /\ Notify(Null, "thread/started",
              [BlankParams EXCEPT !.thread = [NoRecord EXCEPT !.present = TRUE,
                                                !.id = NewThreadId]])
    /\ UNCHANGED <<rtTurn, hist>>
    /\ NotifyFrame

\* turn/started { threadId, turn: { id } }
NotifyTurnStarted ==
    /\ useAppServer /\ pc \in CallbackPcs
    /\ \E t \in DOMAIN rtTurn :
         /\ rtTurn[t] = "requested"
         /\ rtTurn' = [rtTurn EXCEPT ![t] = "running"]
         /\ Notify(t, "turn/started",
                   [BlankParams EXCEPT !.turn = [NoRecord EXCEPT !.present = TRUE, !.id = t]])
    /\ UNCHANGED hist
    /\ NotifyFrame

\* turn/completed { turn: { id, status } }
NotifyTurnCompleted ==
    /\ useAppServer /\ pc \in CallbackPcs
    /\ \E t \in DOMAIN rtTurn, st \in {"completed", "Interrupted", "failed"} :
         /\ rtTurn[t] \in {"running", "failing"}
         /\ rtTurn[t] = "failing" => st = "failed"
         /\ rtTurn' = [rtTurn EXCEPT ![t] = "ended"]
         /\ Notify(t, "turn/completed",
                   [BlankParams EXCEPT !.turn = [NoRecord EXCEPT !.present = TRUE,
                                                   !.id = t, !.status = st]])
    /\ UNCHANGED hist
    /\ NotifyFrame

\* turn/diff/updated { turnId, diff }
NotifyTurnDiff ==
    /\ useAppServer /\ pc \in CallbackPcs
    /\ \E t \in Running, d \in {"", "diff1"} :
         Notify(t, "turn/diff/updated", [BlankParams EXCEPT !.turnId = t, !.diff = d])
    /\ UNCHANGED <<rtTurn, hist>>
    /\ NotifyFrame

\* the buffered text of an item, '' when there is none
Buffered(buffer, itemId) == Coalesce(Get(buffer, itemId), "")

\* item/reasoning/textDelta { turnId, itemId, delta } of a running turn
NotifyDelta ==
    /\ useAppServer /\ pc \in CallbackPcs
    /\ \E t \in Running :
         /\ Len(Buffered(converter.reasoningBuffers, "i1")) < MaxDeltas
         /\ Notify(t, "item/reasoning/textDelta",
                   [BlankParams EXCEPT !.turnId = t, !.itemId = "i1", !.delta = "a"])
    /\ UNCHANGED <<rtTurn, hist>>
    /\ NotifyFrame

\* item/reasoning/summaryPartAdded { turnId } of a running turn
NotifySectionBreak ==
    /\ useAppServer /\ pc \in CallbackPcs
    /\ \E t \in Running :
         /\ collab.reasoningProcessor # "sectionBreak"
         /\ Notify(t, "item/reasoning/summaryPartAdded", [BlankParams EXCEPT !.turnId = t])
    /\ UNCHANGED <<rtTurn, hist>>
    /\ NotifyFrame

\* error { error: { message }, willRetry, turnId }: the turn then fails
NotifyError ==
    /\ useAppServer /\ pc \in CallbackPcs
    /\ \E t \in DOMAIN rtTurn, wr \in {JsTrue, JsFalse, Null} :
         /\ rtTurn[t] = "running"
         /\ rtTurn' = IF wr = JsTrue THEN rtTurn ELSE [rtTurn EXCEPT ![t] = "failing"]
         /\ Notify(t, "error",
                   [BlankParams EXCEPT !.turnId = t, !.willRetry = wr, !.error = NonString,
                        !.errorRecord = [NoRecord EXCEPT !.present = TRUE, !.message = "boom"]])
    /\ UNCHANGED hist
    /\ NotifyFrame

\* an MCP event of a session call (also one that arrives after the call was
\* given up); MCP events carry no turn id
McpEvent ==
    /\ ~useAppServer /\ pc \in CallbackPcs
    /\ \E t \in DOMAIN rtTurn :
       \E ty \in {"task_started", "agent_reasoning_delta"} \cup TerminalTypes :
         /\ rtTurn[t] = (IF ty = "task_started" THEN "requested" ELSE "running")
         /\ rtTurn' = [rtTurn EXCEPT ![t] =
                          IF ty = "task_started" THEN "running"
                          ELSE IF ty \in TerminalTypes THEN "ended" ELSE @]
         /\ FeedTurn(t, [BlankMsg EXCEPT !.type = ty,
                            !.delta = IF ty = "agent_reasoning_delta" THEN "think" ELSE Null])
    /\ UNCHANGED <<hist, converter>>
    /\ NotifyFrame

\* the user sends a message in either operating mode of the agent
EnqueueWithMode ==
    /\ pc \in CallbackPcs /\ enqueued < MaxMessages
    /\ enqueued' = enqueued + 1
    /\ \E h \in ModeHashes :
         queue' = Append(queue, [id |-> enqueued + 1, hash |-> h])
    /\ UNCHANGED <<launcherVars, sessionId, thinking, loopVars, collab, converter, emitterVars,
                   rtTurn, abortReqs, evCount, corr, abortsAwaiting, histVars>>

\* the state after the constructor and the connection of the client
LoopInit ==
    /\ currentThreadId = Null /\ currentTurnId = Null
    /\ abortController = 0 /\ abortedScopes = {} /\ shouldExit = FALSE
    /\ sessionId \in {Null, OldThreadId} /\ thinking = FALSE /\ queue = <<>>
    /\ pc = "top" /\ wasCreated = FALSE /\ currentModeHash = Null
    /\ pending = NoMessage /\ first = TRUE /\ turnInFlight = FALSE
    /\ message = NoMessage /\ rpcSignal = 0 /\ rpcTurn = Null /\ errKind = Null
    /\ resumeCandidate = Null /\ threadId = Null /\ collab = CleanCollab
    /\ converter = EmptyConverter
    /\ planCallIdByTurn = EmptyMap /\ toolCalls = EmptyMap
    /\ toolResults = EmptyMap /\ uuidCounter = 0
    /\ abortsAwaiting = 0
    /\ rtTurn = EmptyMap /\ enqueued = 0 /\ abortReqs = 0 /\ evCount = 0
    /\ corr = NoPair
    /\ terminalCount = EmptyMap /\ lastTerminal = EmptyMap
    /\ planUpdated = EmptyMap /\ callOwner = EmptyMap /\ planCalls = {}
    /\ lastCmd = NoCommand /\ interruptCalls = <<>> /\ hist = InitHist

\* the steps of the loop, of the abort handler and of the user
LoopSteps ==
    \/ LoopTop
    \/ WaitBatch
    \/ WaitCancelled
    \/ WaitEnded
    \/ Cleanup
    \/ Dispatch
    \/ RpcRejected
    \/ RpcCancelled
    \/ Catch
    \/ Finally
    \/ AbortRequest

LoopNext ==
    \/ LoopSteps
    \/ Enqueue

(***************************************************************************)
(* C5  At most one turn is in flight: the loop never issues startTurn for  *)
(* a message while a turn started before has not had its terminal event    *)
(* processed.                                                              *)
(***************************************************************************)
CE_C5_OneTurnInFlight ==
    lastCmd.op = "startTurn" => ~lastCmd.busy

(***************************************************************************)
(* C6  Every started turn is terminated by exactly one terminal event:     *)
(* over the notifications of one turn, handleCodexEvent processes at most  *)
(* one of task_complete / turn_aborted / task_failed, and exactly one once *)
(* the runtime has completed the turn.                                     *)
(***************************************************************************)
CE_C6_OneTerminalEvent ==
    \A t \in DOMAIN rtTurn :
        /\ Count(terminalCount, t) <= 1
        /\ rtTurn[t] = "ended" => Count(terminalCount, t) = 1

(***************************************************************************)
(* C7  An abort is observed at the loop's next suspension point: once an   *)
(* abort has cancelled the await the loop was suspended in, the loop       *)
(* issues no startThread / startTurn for the message it was processing.    *)
(***************************************************************************)
CE_C7_AbortObservedAtSuspension == ~hist.cmdAfterAbort

(***************************************************************************)
(* C8  On an abort request in app-server mode, interruptTurn is called for *)
(* (currentThreadId, currentTurnId) exactly when both are known; whether   *)
(* that call succeeds or fails, the rest of the sequence runs: the scope   *)
(* is aborted, the queue and the collaborators are reset, the turn id is   *)
(* forgotten and the scope is replaced.                                    *)
(***************************************************************************)
\* the abort sequence ran in this step
AbortSequenceRan ==
    /\ abortController \in abortedScopes'
    /\ queue' = <<>>
    /\ collab' = CleanCollab
    /\ currentTurnId' = Null
    /\ abortController' # abortController
    /\ abortController' \notin abortedScopes'

AbortInterruptStep ==
    /\ (abortReqs' = abortReqs + 1) =>
         IF currentThreadId # Null /\ currentTurnId # Null
         THEN /\ interruptCalls' = Append(interruptCalls,
                     [threadId |-> currentThreadId, turnId |-> currentTurnId])
              /\ abortsAwaiting' = abortsAwaiting + 1
         ELSE /\ interruptCalls' = interruptCalls
              /\ AbortSequenceRan
    /\ (abortsAwaiting' < abortsAwaiting) =>
         /\ hist'.lastInterrupt \in {"ok", "failed"}
         /\ AbortSequenceRan

Thm_C8_AbortInterrupt == [][AbortInterruptStep]_vars

Wit_C8_AbortInterrupt ==
    /\ interruptCalls # <<>>
    /\ hist.lastInterrupt = "failed"
    /\ abortController > 0 /\ (abortController - 1) \in abortedScopes
    /\ queue = <<>> /\ collab = CleanCollab /\ currentTurnId = Null

(***************************************************************************)
(* C9  Cancellation is scoped per abort episode: the current scope is      *)
(* never an aborted one, and no wait or RPC of the loop is started on a    *)
(* signal that is already aborted.                                         *)
(***************************************************************************)
Thm_C9_FreshScope ==
    /\ abortController \notin abortedScopes
    /\ ~hist.preCancelled

Wit_C9_FreshScope ==
    /\ abortedScopes # {}
    /\ pc \in AwaitPcs
    /\ rpcSignal = abortController

(***************************************************************************)
(* C10  Resume-vs-start.  A session that is not created and has a known    *)
(* session id tries resumeThread first; startThread is awaited only when   *)
(* there was no resume candidate or the resume call failed; and the turn   *)
(* of a new session is started on the thread that this.currentThreadId     *)
(* already names.                                                          *)
(***************************************************************************)
Thm_C10_ResumeVsStart ==
    /\ pc = "resume" =>
         /\ ~wasCreated /\ asString(resumeCandidate) # Null
         /\ lastCmd.op = "resumeThread" /\ lastCmd.thread = resumeCandidate
    /\ pc = "startThread" =>
         /\ ~wasCreated
         /\ asString(resumeCandidate) = Null \/ hist.resume = "failed"
    /\ pc = "startTurnNew" =>
         /\ asString(resumeCandidate) # Null => hist.resume \in {"ok", "failed"}
         /\ lastCmd.op = "startTurn" /\ lastCmd.thread # Null
         /\ lastCmd.cur = lastCmd.thread

Wit_C10_ResumeVsStart ==
    /\ pc = "startTurnNew"
    /\ hist.resume = "failed"
    /\ currentThreadId = NewThreadId


(***************************************************************************)
(* C11  Mode change.  As claimed: whenever a message is dequeued while the *)
(* session is created and its mode hash differs from the hash in use, the  *)
(* loop resets the processors, clears thinking, marks the session not      *)
(* created and keeps the message as pending, sending nothing yet.          *)
(***************************************************************************)
\* a message was dequeued whose mode hash differs from the one in use
ModeDiffers ==
    /\ pc = "dispatch" /\ wasCreated
    /\ currentModeHash # Null /\ message.hash # currentModeHash

\* the step tears the local state down and puts the message back
ModeTeardownStep ==
    /\ collab' = CleanCollab /\ thinking' = FALSE
    /\ wasCreated' = FALSE
    /\ pending' = message
    /\ lastCmd' = lastCmd /\ pc' = "top"

CE_C11_ModeChange == [][ModeDiffers => ModeTeardownStep]_vars

(***************************************************************************)
(* C11 as amended: in MCP mode, a dequeued message whose mode hash differs *)
(* from the one of the created session makes the loop tear the local state *)
(* down and keep the message as pending; the pending message is taken up   *)
(* by the next iteration, which creates the session with that message.     *)
(***************************************************************************)
ModeChangeStep ==
    /\ (ModeDiffers /\ ~useAppServer) => ModeTeardownStep
    /\ (~useAppServer /\ pc = "top" /\ pending # NoMessage) =>
           (pc' = "dispatch" /\ message' = pending)
    /\ (~useAppServer /\ pc = "dispatch" /\ ~wasCreated) =>
           /\ pc' = "startSession"
           /\ lastCmd'.op = "startSession" /\ lastCmd'.msg = message.id

Thm_C11_ModeChangeMcp == [][ModeChangeStep]_vars

Wit_C11_ModeChangeMcp ==
    /\ ~useAppServer /\ pc = "startSession"
    /\ hist.restart = "mode"
    /\ lastCmd.op = "startSession" /\ lastCmd.msg = message.id


(***************************************************************************)
(* C12  Unexpected failure recovery.  When the catch block receives an     *)
(* error that is not the cancellation error, the UI is told 'Process       *)
(* exited unexpectedly' and, in app-server mode, the thread id and the     *)
(* turn id are discarded and the session is marked not created.  A session *)
(* that is not created goes through resumeThread or startThread, stays not *)
(* created until the turn of a new thread has been started, and startTurn  *)
(* on the known thread is only called for a created session.               *)
(***************************************************************************)
UnexpectedFailureStep ==
    /\ (pc = "catch" /\ errKind # "abort") =>
           /\ hist'.ui = "Process exited unexpectedly"
           /\ useAppServer =>
                  /\ currentThreadId' = Null /\ currentTurnId' = Null
                  /\ wasCreated' = FALSE
    /\ (useAppServer /\ pc = "dispatch" /\ ~wasCreated) =>
           pc' \in {"resume", "startThread"}
    /\ (useAppServer /\ pc = "dispatch" /\ pc' = "startTurn") => wasCreated
    /\ (~wasCreated /\ wasCreated') => pc = "startTurnNew"

Thm_C12_UnexpectedFailure == [][UnexpectedFailureStep]_vars

Wit_C12_UnexpectedFailure ==
    /\ useAppServer /\ pc = "resume"
    /\ message.id = 2
    /\ resumeCandidate = NewThreadId
    /\ currentThreadId = Null /\ ~wasCreated


(***************************************************************************)
(* C13  User-cancellation recovery.  When the catch block receives the     *)
(* cancellation error, the UI is told 'Aborted by user'; in app-server     *)
(* mode the thread id and the created flag stay as they are, in MCP mode   *)
(* the session is marked not created and the mode hash is cleared.         *)
(***************************************************************************)
UserCancelStep ==
    (pc = "catch" /\ errKind = "abort") =>
        /\ hist'.ui = "Aborted by user"
        /\ useAppServer =>
               /\ currentThreadId' = currentThreadId
               /\ wasCreated' = wasCreated
        /\ ~useAppServer =>
               /\ wasCreated' = FALSE
               /\ currentModeHash' = Null

Thm_C13_UserCancel == [][UserCancelStep]_vars

Wit_C13_UserCancel ==
    /\ useAppServer /\ pc = "finally"
    /\ hist.ui = "Aborted by user"
    /\ wasCreated /\ currentThreadId # Null


(***************************************************************************)
(* C14.  Guaranteed cleanup: a try block that was entered is left through  *)
(* the finally block only, and the finally block resets the permission     *)
(* handler, aborts the reasoning processor, resets the diff processor and  *)
(* the buffers of the converter and clears the thinking indicator,         *)
(* whichever way the iteration went (success, user cancel, unexpected      *)
(* failure, restart for a missing thread).                                 *)
(***************************************************************************)
\* the positions inside the try block and its catch block
TryPcs == RpcPcs \cup {"catch"}

CleanupStep ==
    /\ pc \in TryPcs => pc' \in TryPcs \cup {"finally"}
    /\ pc = "dispatch" /\ pc' # "dispatch" =>
           \/ pc' \in TryPcs \cup {"finally"}
           \/ ~useAppServer /\ pc' = "top" /\ hist'.restart = "mode"
    /\ pc = "finally" =>
           /\ pc' = "top"
           /\ collab' = CleanCollab
           /\ converter' = EmptyConverter
           /\ thinking' = FALSE

\* C14: every iteration that starts processing a message ends by the
\* cleanup of the finally block, on every exit path
Thm_C14_GuaranteedCleanup == [][CleanupStep]_vars

\* C14 witness: the finally block of an iteration that ended by a user
\* cancel has just reset a streaming reasoning processor, a diff processor
\* that held a diff, a converter with buffered deltas and the thinking
\* indicator
Wit_C14_GuaranteedCleanup ==
    /\ pc = "top" /\ hist.ui = "Aborted by user"
    /\ hist.swept = {"reasoningProcessor", "diffProcessor", "converter", "thinking"}
    /\ collab = CleanCollab /\ converter = EmptyConverter /\ ~thinking

(***************************************************************************)
(* C15.  A ready signal is sent only when the session is idle.             *)
(***************************************************************************)
\* handleCodexEvent calls sendReady() for the terminal event it processes
ReadyOnEvent == terminalCount' # terminalCount

\* emitReadyIfIdle of the finally block sends the signal
ReadyInFinally ==
    /\ pc = "finally" /\ (~useAppServer \/ ~turnInFlight)
    /\ pending = NoMessage /\ queue = <<>> /\ ~shouldExit

\* C15: at every ready emission there is no pending message, the queue is
\* empty and no turn is in flight
CE_C15_ReadyOnlyWhenIdle ==
    [][ReadyOnEvent \/ ReadyInFinally =>
          /\ pending' = NoMessage /\ queue' = <<>>
          /\ ~turnInFlight']_vars

(***************************************************************************)
(* Spec: the session loop in app-server mode (the default), with the user, *)
(* the abort handler and the runtime's notifications.                      *)
(***************************************************************************)
Init == useAppServer = TRUE /\ LoopInit

Next ==
    \/ LoopNext
    \/ ResumeResolved
    \/ ResumeRejected
    \/ ResumeCancelled
    \/ StartThreadResolved
    \/ StartTurnResolved
    \/ InterruptSettled
    \/ NotifyThreadStarted
    \/ NotifyTurnStarted
    \/ NotifyTurnCompleted
    \/ NotifyTurnDiff
    \/ NotifyError

Spec == Init /\ [][Next]_vars

(***************************************************************************)
(* McpSpec: the session loop in MCP mode (CODEX_USE_MCP_SERVER=1).         *)
(***************************************************************************)
McpInit == useAppServer = FALSE /\ LoopInit

McpNext ==
    \/ LoopNext
    \/ SessionResolved
    \/ McpEvent

McpSpec == McpInit /\ [][McpNext]_vars

(***************************************************************************)
(* ModesSpec: the session loop in either mode, with messages of either     *)
(* operating mode; the runtime answers the calls and, in MCP mode, sends   *)
(* its events.                                                             *)
(***************************************************************************)
ModesInit == useAppServer \in BOOLEAN /\ LoopInit

ModesNext ==
    \/ LoopSteps
    \/ EnqueueWithMode
    \/ ResumeResolved
    \/ ResumeRejected
    \/ ResumeCancelled
    \/ StartThreadResolved
    \/ StartTurnResolved
    \/ InterruptSettled
    \/ SessionResolved
    \/ McpEvent

ModesSpec == ModesInit /\ [][ModesNext]_vars

(***************************************************************************)
(* DeltaSpec and ItemSpec: one AppServerEventConverter that receives       *)
(* notifications and is reset, in any order.  DeltaSpec sends the deltas   *)
(* and the completions of agentMessage items, ItemSpec the items of every  *)
(* type, the deltas of one item and error notifications.                   *)
(***************************************************************************)
\* the type names items arrive with; todoList is a type the converter does
\* not handle
ItemTypeNames ==
    {"agentMessage", "reasoning", "plan", "commandExecution", "fileChange",
     "mcpToolCall", "collabToolCall", "webSearch", "imageView",
     "enteredReviewMode", "exitedReviewMode", "contextCompaction", "todoList"}

RECURSIVE SumLen(_, _)
\* the characters held by the entries ks of a text buffer
SumLen(buffer, ks) ==
    IF ks = {} THEN 0
    ELSE LET k == CHOOSE x \in ks : TRUE
         IN Len(buffer[k]) + SumLen(buffer, ks \ {k})

\* the characters held by the five delta buffers
TotalBuffered(cv) ==
    SumLen(cv.agentMessageBuffers, DOMAIN cv.agentMessageBuffers)
    + SumLen(cv.reasoningBuffers, DOMAIN cv.reasoningBuffers)
    + SumLen(cv.planBuffers, DOMAIN cv.planBuffers)
    + SumLen(cv.commandOutputBuffers, DOMAIN cv.commandOutputBuffers)
    + SumLen(cv.fileChangeOutputBuffers, DOMAIN cv.fileChangeOutputBuffers)

\* the entries of the seven maps, as pairs of a map and an item id
Holding(cv) ==
    {p \in (DOMAIN cv) \X (ItemIds \cup {"reasoning"}) : p[2] \in DOMAIN cv[p[1]]}

\* the entries a reset cleared, without those of item i
Renewed(stale, i) == {p \in stale : p[2] # i}

RECURSIVE Flatten(_)
\* the concatenation of a sequence of strings, in order
Flatten(seq) == IF seq = <<>> THEN "" ELSE Head(seq) \o Flatten(Tail(seq))

\* the agentMessage deltas observed for an item
DeltasOf(h, i) == IF i \in DOMAIN h.deltas THEN h.deltas[i] ELSE <<>>

\* everything but the converter and the observations
ConverterFrame ==
    UNCHANGED <<launcherVars, sessionVars, loopVars, collab, emitterVars, envVars,
                terminalCount, lastTerminal, planUpdated, callOwner, planCalls,
                lastCmd, interruptCalls>>

\* converter.handleNotification(method, params), h the observations after it
Call(method, params, h) ==
    LET step == convert(converter, method, params) IN
    /\ converter' = step.conv
    /\ hist' = [h EXCEPT !.call = [method |-> method, params |-> params,
                                   events |-> step.events]]
    /\ ConverterFrame

\* item/agentMessage/delta { itemId, delta }
ConvAgentDelta ==
    \E i \in ItemIds, d \in {"", "a", "b", "ab"} :
      /\ TotalBuffered(converter) + Len(d) <= MaxDeltas
      /\ Len(DeltasOf(hist, i)) < MaxDeltas
      /\ Call("item/agentMessage/delta",
              [BlankParams EXCEPT !.itemId = i, !.delta = d],
              [hist EXCEPT !.deltas = Put(@, i, Append(DeltasOf(hist, i), d)),
                           !.stale = Renewed(@, i)])

\* the delta notifications of the five buffers { turnId, itemId, delta }
ConvDelta ==
    \E method \in {"item/agentMessage/delta", "item/plan/delta",
                   "item/reasoning/textDelta", "item/commandExecution/outputDelta",
                   "item/fileChange/outputDelta"} :
      /\ TotalBuffered(converter) < MaxDeltas
      /\ Call(method, [BlankParams EXCEPT !.turnId = "t1", !.itemId = "i1", !.delta = "o"],
              [hist EXCEPT !.stale = Renewed(@, "i1")])

\* item/started { turnId, item: { id, type, command, cwd, changes } }
ItemStarted(i, ty) ==
    Call("item/started",
         [BlankParams EXCEPT !.turnId = "t1",
             !.item = [NoItem EXCEPT !.present = TRUE, !.id = i, !.type = ty,
                         !.command = "ls", !.cwd = "/w", !.changes = NonString]],
         [hist EXCEPT !.started = @ \cup {i}, !.stale = Renewed(@, i)])

\* item/completed { item: { id, type, text, status } }
ItemCompleted(i, ty, tx) ==
    Call("item/completed",
         [BlankParams EXCEPT
             !.item = [NoItem EXCEPT !.present = TRUE, !.id = i, !.type = ty,
                         !.text = tx, !.status = "completed"]],
         [hist EXCEPT !.deltas = IF ty = "agentMessage" THEN Drop(@, i) ELSE @])

\* an agentMessage item starts or completes, with or without a text
ConvAgentItem ==
    \E i \in ItemIds, tx \in {Null, "x"} :
       ItemStarted(i, "agentMessage") \/ ItemCompleted(i, "agentMessage", tx)

ConvItemStarted == \E ty \in ItemTypeNames : ItemStarted("i1", ty)

ConvItemCompleted ==
    \E ty \in ItemTypeNames, tx \in {Null, "x"} : ItemCompleted("i1", ty, tx)

\* converter.reset()
ConvReset ==
    /\ converter' = reset(converter)
    /\ hist' = [hist EXCEPT !.call = [NoCall EXCEPT !.method = "reset"],
                            !.deltas = EmptyMap, !.begun = EmptyMap,
                            !.stale = @ \cup Holding(converter)]
    /\ ConverterFrame

\* error { will_retry, willRetry, message }
ConvError ==
    \E a \in {Null, JsTrue, JsFalse}, b \in {Null, JsTrue, JsFalse} :
      Call("error", [BlankParams EXCEPT !.will_retry = a, !.willRetry = b,
                                        !.message = "boom"],
           hist)

ConverterInit == useAppServer = TRUE /\ sessionId = Null /\ LoopInit

DeltaNext ==
    \/ ConvAgentDelta
    \/ ConvAgentItem
    \/ ConvReset

DeltaSpec == ConverterInit /\ [][DeltaNext]_vars

ItemNext ==
    \/ ConvDelta
    \/ ConvItemStarted
    \/ ConvItemCompleted
    \/ ConvReset
    \/ ConvError

ItemSpec == ConverterInit /\ [][ItemNext]_vars

(***************************************************************************)
(* C16.  Delta associativity: an agentMessage item completed without a     *)
(* text of its own is emitted with the concatenation, in arrival order, of *)
(* the deltas received for its id since the last reset (and since the      *)
(* item's last completion, which ends the item); a delta notification      *)
(* emits nothing.                                                          *)
(***************************************************************************)
\* the step is the completion of agentMessage item i without a text
CompletesWithoutText(i) ==
    /\ hist'.call.method = "item/completed"
    /\ hist'.call.params.item.type = "agentMessage"
    /\ hist'.call.params.item.id = i
    /\ hist'.call.params.item.text = Null

DeltaStep ==
    /\ hist'.call.method = "item/agentMessage/delta" => hist'.call.events = <<>>
    /\ \A i \in ItemIds :
         CompletesWithoutText(i) =>
            LET text == Flatten(DeltasOf(hist, i))
                events == hist'.call.events
            IN IF text = "" THEN events = <<>>
               ELSE /\ Len(events) = 1
                    /\ events[1].type = "agent_message"
                    /\ events[1].item_id = i
                    /\ events[1].message = text

\* C16: the text of the completed message is the concatenation of the deltas
\* of its item; the deltas emit no event
Thm_C16_DeltaAssociativity == [][DeltaStep]_vars

\* C16 witness: an item that received the deltas "b" and "a" was completed
\* without a text and was emitted with the message "ba"
Wit_C16_DeltaAssociativity ==
    /\ hist.call.method = "item/completed"
    /\ hist.call.params.item.text = Null
    /\ Len(hist.call.events) = 1
    /\ hist.call.events[1].type = "agent_message"
    /\ hist.call.events[1].message = "ba"

(***************************************************************************)
(* C17.  Reset clears buffers: after reset() the five delta buffers and    *)
(* the two metadata caches are empty, and an item that received deltas or  *)
(* a start before the reset and is completed without a text of its own     *)
(* yields no text and none of the metadata of its start.                   *)
(***************************************************************************)
\* the event carries no text and nothing of a start
Bare(e) ==
    /\ e.message = Null /\ e.text = Null /\ e.output = Null /\ e.stdout = Null
    /\ e.command = Null /\ e.cwd = Null /\ e.changes = Null
    /\ e.thread_id = Null /\ e.turn_id = Null

ResetStep ==
    /\ hist'.call.method = "reset" => converter' = EmptyConverter
    /\ \A i \in ItemIds :
         /\ hist'.call.method = "item/completed"
         /\ hist'.call.params.item.id = i
         /\ hist'.call.params.item.text = Null
         /\ \E p \in hist.stale : p[2] = i
         => \A k \in 1..Len(hist'.call.events) : Bare(hist'.call.events[k])

\* C17: reset() empties every buffer and cache, so nothing buffered or
\* cached before it shows up in a later completion
Thm_C17_ResetClearsBuffers == [][ResetStep]_vars

\* C17 witness: a command that was started and had received output before
\* the reset is completed after it: exec_command_end carries neither the
\* output nor the command of the start
Wit_C17_ResetClearsBuffers ==
    /\ hist.call.method = "item/completed"
    /\ hist.call.params.item.type = "commandExecution"
    /\ {<<"commandMeta", "i1">>, <<"commandOutputBuffers", "i1">>} \subseteq hist.stale
    /\ Len(hist.call.events) = 1
    /\ hist.call.events[1].type = "exec_command_end"
    /\ Bare(hist.call.events[1])
    /\ converter = EmptyConverter

(***************************************************************************)
(* C18.  Completion without a matching start: an item/completed for an     *)
(* item that no item/started was received for raises nothing and yields    *)
(* the terminal event of the item's type, built from the fields of the     *)
(* completion only.                                                        *)
(***************************************************************************)
\* the event type an item/completed of each handled type is converted to
CompletionEvent ==
    [agentMessage |-> "agent_message", reasoning |-> "agent_reasoning",
     plan |-> "plan_item_completed", commandExecution |-> "exec_command_end",
     fileChange |-> "patch_apply_end", mcpToolCall |-> "mcp_tool_call_end",
     collabToolCall |-> "collab_tool_call_end", webSearch |-> "web_search_end",
     imageView |-> "image_view_end", enteredReviewMode |-> "review_mode_entered",
     exitedReviewMode |-> "review_mode_exited",
     contextCompaction |-> "context_compaction_completed"]

\* the step is the completion of an item of a handled type that was never
\* started
CompletesUnstarted ==
    /\ hist'.call.method = "item/completed"
    /\ hist'.call.params.item.type \in DOMAIN CompletionEvent
    /\ hist'.call.params.item.id \notin hist.started

\* the one event of the step is the terminal event of the item, with the
\* fields of the completion only
TerminalEventOnly ==
    LET item == hist'.call.params.item
        events == hist'.call.events
    IN /\ Len(events) = 1
       /\ events[1].type = CompletionEvent[item.type]
       /\ events[1].item_id = item.id
       /\ events[1].status = item.status
       /\ events[1].command = Null /\ events[1].cwd = Null
       /\ events[1].changes = Null
       /\ events[1].thread_id = Null /\ events[1].turn_id = Null

\* the messages and reasonings that complete with nothing to say: no text
\* of their own and no buffered delta
Wordless ==
    LET item == hist'.call.params.item IN
    /\ item.type \in {"agentMessage", "reasoning"}
    /\ item.text = Null
    /\ item.id \notin DOMAIN (IF item.type = "agentMessage"
                              THEN converter.agentMessageBuffers
                              ELSE converter.reasoningBuffers)

\* C18 as stated: for every handled item type the completion of an item
\* without a start yields its terminal event
CE_C18_CompletionWithoutStart ==
    [][CompletesUnstarted => TerminalEventOnly]_vars

\* C18 amended: the completion of an item without a start yields its
\* terminal event from the fields of the completion, except that an
\* agentMessage or reasoning item with no text and no buffered delta yields
\* no event at all
Thm_C18_CompletionWithoutStart ==
    [][CompletesUnstarted =>
          IF Wordless THEN hist'.call.events = <<>> ELSE TerminalEventOnly]_vars

\* C18 witness: a command execution that was never started is completed and
\* converted to an exec_command_end without a command
Wit_C18_CompletionWithoutStart ==
    /\ hist.started = {}
    /\ hist.call.method = "item/completed"
    /\ hist.call.params.item.type = "commandExecution"
    /\ Len(hist.call.events) = 1
    /\ hist.call.events[1].type = "exec_command_end"
    /\ hist.call.events[1].call_id = "i1"
    /\ hist.call.events[1].command = Null

(***************************************************************************)
(* C19.  Retry suppression: an error notification whose retry flag         *)
(* (will_retry, or willRetry when will_retry is absent) is true yields no  *)
(* event and changes nothing; with the flag false or absent it yields      *)
(* exactly one task_failed event.                                          *)
(***************************************************************************)
ErrorStep ==
    hist'.call.method = "error" =>
        LET p == hist'.call.params
            events == hist'.call.events
        IN /\ converter' = converter
           /\ IF p.will_retry = JsTrue \/ (p.will_retry = Null /\ p.willRetry = JsTrue)
              THEN events = <<>>
              ELSE /\ Len(events) = 1
                   /\ events[1].type = "task_failed"
                   /\ events[1].error = p.message

\* C19: a retried error is suppressed and leaves the buffers alone, any
\* other error becomes one task_failed
Thm_C19_RetrySuppression == [][ErrorStep]_vars

\* C19 witness: an error with willRetry true arrived while deltas and a
\* started command were held; nothing was emitted and they are still held
Wit_C19_RetrySuppression ==
    /\ hist.call.method = "error"
    /\ hist.call.params.will_retry = Null /\ hist.call.params.willRetry = JsTrue
    /\ hist.call.events = <<>>
    /\ "i1" \in DOMAIN converter.commandMeta
    /\ TotalBuffered(converter) > 0

(***************************************************************************)
(* ClassifySpec: the converter receives turn/completed notifications with  *)
(* the status in the params or in the turn record, in either case of the   *)
(* first letter, and with or without an error, message and reason.         *)
(***************************************************************************)
TurnStatuses ==
    {Null, NonString, "completed", "Completed", "running",
     "interrupted", "Interrupted", "cancelled", "Cancelled", "canceled", "Canceled",
     "failed", "Failed", "error", "Error"}

\* turn/completed { status | turn: { id, status }, error, message, reason }
ConvTurnCompleted ==
    \E st \in TurnStatuses, inTurn \in BOOLEAN,
       e \in {Null, "e"}, m \in {Null, "m"}, r \in {Null, "r"} :
      Call("turn/completed",
           [BlankParams EXCEPT
               !.status = IF inTurn THEN Null ELSE st,
               !.turn = [NoRecord EXCEPT !.present = TRUE, !.id = "t1",
                            !.status = IF inTurn THEN st ELSE Null],
               !.error = e, !.message = m, !.reason = r],
           hist)

ClassifyNext == ConvTurnCompleted

ClassifySpec == ConverterInit /\ [][ClassifyNext]_vars

(***************************************************************************)
(* C20.  Status classification of turn/completed.                          *)
(***************************************************************************)
\* the status a turn/completed notification of the model carries
GivenStatus(p) == IF p.turn.status # Null THEN p.turn.status ELSE p.status

\* the first of error, message, reason that is given
GivenError(p) ==
    IF p.error # Null THEN p.error ELSE IF p.message # Null THEN p.message ELSE p.reason

\* C20: turn/completed yields exactly one event: turn_aborted for the
\* statuses interrupted / cancelled / canceled in any case, task_failed with
\* the error, message or reason for failed / error, task_complete for every
\* other status and for none
Thm_C20_StatusClassification ==
    hist.call.method = "turn/completed" =>
        LET st == GivenStatus(hist.call.params)
            events == hist.call.events
        IN /\ Len(events) = 1
           /\ events[1].turn_id = "t1"
           /\ IF st \in {"interrupted", "Interrupted", "cancelled", "Cancelled",
                         "canceled", "Canceled"}
              THEN events[1].type = "turn_aborted" /\ events[1].error = Null
              ELSE IF st \in {"failed", "Failed", "error", "Error"}
              THEN /\ events[1].type = "task_failed"
                   /\ events[1].error = GivenError(hist.call.params)
              ELSE events[1].type = "task_complete" /\ events[1].error = Null

\* C20 witness: a turn completed with the status Failed in its turn record
\* and a message was converted to task_failed carrying the message
Wit_C20_StatusClassification ==
    /\ hist.call.method = "turn/completed"
    /\ hist.call.params.turn.status = "Failed"
    /\ hist.call.params.error = Null /\ hist.call.params.message = "m"
    /\ Len(hist.call.events) = 1
    /\ hist.call.events[1].type = "task_failed"
    /\ hist.call.events[1].error = "m"

(***************************************************************************)
(* CommandSpec: the converter receives the start, the output deltas and    *)
(* the completion of command executions, and is reset, in any order.       *)
(***************************************************************************)
\* item/started { turnId, item: { id, type: commandExecution, command } }
CmdStarted ==
    \E i \in ItemIds, cmd \in {"ls", "pwd"} :
      Call("item/started",
           [BlankParams EXCEPT !.turnId = "t1",
               !.item = [NoItem EXCEPT !.present = TRUE, !.id = i,
                           !.type = "commandExecution", !.command = cmd,
                           !.status = "inProgress"]],
           [hist EXCEPT !.started = @ \cup {i}, !.begun = Put(@, i, cmd),
                        !.stale = Renewed(@, i)])

\* item/commandExecution/outputDelta { itemId, delta }
CmdOutputDelta ==
    \E i \in ItemIds, d \in {"", "a", "b"} :
      /\ TotalBuffered(converter) + Len(d) <= MaxDeltas
      /\ Len(DeltasOf(hist, i)) < MaxDeltas
      /\ Call("item/commandExecution/outputDelta",
              [BlankParams EXCEPT !.itemId = i, !.delta = d],
              [hist EXCEPT !.deltas = Put(@, i, Append(DeltasOf(hist, i), d)),
                           !.stale = Renewed(@, i)])

\* item/completed { item: { id, type: commandExecution, command, output,
\* exitCode, status } }
CmdCompleted ==
    \E i \in ItemIds, out \in {Null, "x"}, code \in Numbers \cup {Null} :
      Call("item/completed",
           [BlankParams EXCEPT
               !.item = [NoItem EXCEPT !.present = TRUE, !.id = i,
                           !.type = "commandExecution", !.command = "rm",
                           !.output = out, !.exitCode = code,
                           !.status = "completed"]],
           [hist EXCEPT !.deltas = Drop(@, i), !.begun = Drop(@, i)])

CommandNext ==
    \/ CmdStarted
    \/ CmdOutputDelta
    \/ CmdCompleted
    \/ ConvReset

CommandSpec == ConverterInit /\ [][CommandNext]_vars

(***************************************************************************)
(* C21.  Command execution end-to-end: a command item that was started     *)
(* with command C, received output deltas and is completed without an      *)
(* output of its own yields one exec_command_end with the command C of the *)
(* start, the concatenation of the deltas as output (no output when the    *)
(* concatenation is empty) and the exit code of the completion; after the  *)
(* completion the converter holds neither metadata nor output for the id.  *)
(***************************************************************************)
\* the step completes command i, started since the last reset, without an
\* output of its own
CompletesCommand(i) ==
    /\ hist'.call.method = "item/completed"
    /\ hist'.call.params.item.type = "commandExecution"
    /\ hist'.call.params.item.id = i
    /\ hist'.call.params.item.output = Null
    /\ i \in DOMAIN hist.begun

CommandStep ==
    \A i \in ItemIds :
       CompletesCommand(i) =>
          LET text == Flatten(DeltasOf(hist, i))
              events == hist'.call.events
          IN /\ Len(events) = 1
             /\ events[1].type = "exec_command_end"
             /\ events[1].call_id = i
             /\ events[1].command = hist.begun[i]
             /\ events[1].output = IF text = "" THEN Null ELSE text
             /\ events[1].exit_code = hist'.call.params.item.exitCode
             /\ i \notin DOMAIN converter'.commandMeta
             /\ i \notin DOMAIN converter'.commandOutputBuffers

\* C21: exec_command_end carries the command of the start, the concatenated
\* output deltas and the exit code of the completion, and the metadata and
\* the output buffer of the item are gone afterwards
Thm_C21_CommandEndToEnd == [][CommandStep]_vars

\* C21 witness: a command started as "pwd" that received the deltas "b" and
\* "a" was completed with exit code 0 and without an output: the event
\* carries pwd, "ba" and the exit code, and nothing is held for the item
Wit_C21_CommandEndToEnd ==
    /\ hist.call.method = "item/completed"
    /\ hist.call.params.item.id = "i1"
    /\ hist.call.params.item.output = Null
    /\ hist.call.params.item.exitCode = "#0"
    /\ Len(hist.call.events) = 1
    /\ hist.call.events[1].type = "exec_command_end"
    /\ hist.call.events[1].command = "pwd"
    /\ hist.call.events[1].output = "ba"
    /\ hist.call.events[1].exit_code = "#0"
    /\ "i1" \notin DOMAIN converter.commandMeta
    /\ "i1" \notin DOMAIN converter.commandOutputBuffers
    /\ "i2" \in DOMAIN converter.commandMeta

(***************************************************************************)
(* MalformedSpec: a converter that holds deltas and the metadata of        *)
(* started items receives notifications of methods it does not know and    *)
(* item notifications without a usable type or without an id.              *)
(***************************************************************************)
\* methods no branch of handleNotification is written for
UnknownMethods == {"thread/archived", "item/unknown/delta", "item/started/", ""}

\* the values of a field that is missing or is no non-empty string
Unusable == {Null, NonString, ""}

\* a notification of an unknown method, shaped like a delta and like an item
ConvUnknownMethod ==
    \E method \in UnknownMethods :
      Call(method,
           [BlankParams EXCEPT !.turnId = "t1", !.itemId = "i1", !.delta = "o",
               !.item = [NoItem EXCEPT !.present = TRUE, !.id = "i1",
                           !.type = "commandExecution", !.command = "ls"]],
           hist)

\* item/started or item/completed { item: { id, type, text } } whose type
\* is unusable, normalizes to nothing, or is a type the converter does not
\* handle
ConvUntypedItem ==
    \E method \in {"item/started", "item/completed"},
       ty \in Unusable \cup {"_", "todoList"} :
      Call(method,
           [BlankParams EXCEPT !.turnId = "t1",
               !.item = [NoItem EXCEPT !.present = TRUE, !.id = "i1", !.type = ty,
                           !.text = "x", !.command = "ls", !.status = "completed"]],
           hist)

\* item/started or item/completed { item: { id, type, text } } with an
\* unusable id, the item in a record of its own or spread over the params
ConvAnonymousItem ==
    \E method \in {"item/started", "item/completed"}, id \in Unusable,
       ty \in {"agentMessage", "plan", "commandExecution", "fileChange"},
       nested \in BOOLEAN :
      Call(method,
           IF nested
           THEN [BlankParams EXCEPT !.turnId = "t1",
                    !.item = [NoItem EXCEPT !.present = TRUE, !.id = id, !.type = ty,
                                !.text = "x", !.command = "ls"]]
           ELSE [BlankParams EXCEPT !.turnId = "t1", !.id = id, !.type = ty,
                                    !.text = "x"],
           hist)

MalformedNext ==
    \/ ConvDelta
    \/ ConvItemStarted
    \/ ConvUnknownMethod
    \/ ConvUntypedItem
    \/ ConvAnonymousItem

MalformedSpec == ConverterInit /\ [][MalformedNext]_vars

(***************************************************************************)
(* C22.  Malformed and unknown notifications are dropped without effect:   *)
(* a notification of an unknown method, and an item/started or             *)
(* item/completed from which no normalized type of a handled kind or no    *)
(* item id can be read, yields no event and leaves the five buffers and    *)
(* the two metadata caches as they were.                                   *)
(***************************************************************************)
\* no id can be read from the notification, neither from the params nor
\* from the item
Anonymous(p) ==
    \A v \in {p.itemId, p.item_id, p.id, p.item.id, p.item.itemId, p.item.item_id} :
       v \in Unusable

\* the notification names no type the converter handles
Untyped(p) ==
    (IF p.item.present THEN p.item.type ELSE p.type) \notin ItemTypeNames \ {"todoList"}

\* the step is a notification the converter has to drop
DropsCall ==
    \/ hist'.call.method \in UnknownMethods
    \/ /\ hist'.call.method \in {"item/started", "item/completed"}
       /\ Anonymous(hist'.call.params) \/ Untyped(hist'.call.params)

\* C22: a malformed or unknown notification yields no event and changes no
\* buffer and no metadata cache
Thm_C22_MalformedDropped ==
    [][DropsCall => hist'.call.events = <<>> /\ converter' = converter]_vars

\* C22 witness: while the converter held deltas and the metadata of the
\* started command i1, an item/completed for i1 without a type arrived: no
\* event, and the deltas and the metadata are still held
Wit_C22_MalformedDropped ==
    /\ hist.call.method = "item/completed"
    /\ hist.call.params.item.id = "i1"
    /\ hist.call.params.item.type = Null
    /\ hist.call.events = <<>>
    /\ "i1" \in DOMAIN converter.commandMeta
    /\ "i1" \in DOMAIN converter.commandOutputBuffers

(***************************************************************************)
(* FileChangeSpec: the converter receives the start, the output deltas and *)
(* the completion of a file change, and is reset, in any order.            *)
(***************************************************************************)
\* the changes an item/started carries: arrays of changes and a record
ChangeInputs == {"[a.ts]", "[b.ts]", "{b.ts}"}

\* item/started { turnId, item: { id, type: fileChange, changes } }
PatchStarted ==
    \E ch \in ChangeInputs :
      Call("item/started",
           [BlankParams EXCEPT !.turnId = "t1",
               !.item = [NoItem EXCEPT !.present = TRUE, !.id = "i1",
                           !.type = "fileChange", !.changes = ch,
                           !.status = "inProgress"]],
           [hist EXCEPT !.started = @ \cup {"i1"}, !.begun = Put(@, "i1", ch),
                        !.stale = Renewed(@, "i1")])

\* item/fileChange/outputDelta { turnId, itemId, delta }
PatchOutputDelta ==
    \E d \in {"", "a", "b"} :
      /\ TotalBuffered(converter) + Len(d) <= MaxDeltas
      /\ Len(DeltasOf(hist, "i1")) < MaxDeltas
      /\ Call("item/fileChange/outputDelta",
              [BlankParams EXCEPT !.turnId = "t1", !.itemId = "i1", !.delta = d],
              [hist EXCEPT !.deltas = Put(@, "i1", Append(DeltasOf(hist, "i1"), d)),
                           !.stale = Renewed(@, "i1")])

\* item/completed { item: { id, type: fileChange, changes, stdout, success,
\* ok, applied, status } }
PatchCompleted ==
    \E out \in {Null, "x"}, st \in {Null, "completed", "failed"},
       su \in {Null, JsTrue, JsFalse}, ok \in {Null, JsTrue, JsFalse},
       ap \in {Null, JsTrue, JsFalse} :
      Call("item/completed",
           [BlankParams EXCEPT
               !.item = [NoItem EXCEPT !.present = TRUE, !.id = "i1",
                           !.type = "fileChange", !.changes = "[c.ts]",
                           !.stdout = out, !.success = su, !.ok = ok,
                           !.applied = ap, !.status = st]],
           [hist EXCEPT !.deltas = Drop(@, "i1"), !.begun = Drop(@, "i1")])

FileChangeNext ==
    \/ PatchStarted
    \/ PatchOutputDelta
    \/ PatchCompleted
    \/ ConvReset

FileChangeSpec == ConverterInit /\ [][FileChangeNext]_vars

(***************************************************************************)
(* C23.  File-change flow: every output delta with a non-empty text yields *)
(* one patch_apply_delta carrying that text; the completion of a file      *)
(* change started since the last reset yields one patch_apply_end with the *)
(* change set of the start, with the stdout of the completion or else the  *)
(* concatenated deltas, and with success equal to the first given of       *)
(* success, ok, applied or else to status = completed.                     *)
(***************************************************************************)
\* the change set, keyed by path, of the changes an item/started carried
KeyedByPath(ch) ==
    IF ch \in {"[a.ts]", "{a.ts}"} THEN "{a.ts}" ELSE "{b.ts}"

\* the success a completion states: the first given flag, else its status
StatedSuccess(item) ==
    IF item.success # Null THEN item.success
    ELSE IF item.ok # Null THEN item.ok
    ELSE IF item.applied # Null THEN item.applied
    ELSE IF item.status = "completed" THEN JsTrue ELSE JsFalse

FileChangeStep ==
    LET p == hist'.call.params
        events == hist'.call.events
    IN
    /\ hist'.call.method = "item/fileChange/outputDelta" =>
          IF p.delta = "" THEN events = <<>>
          ELSE /\ Len(events) = 1
               /\ events[1].type = "patch_apply_delta"
               /\ events[1].item_id = p.itemId
               /\ events[1].delta = p.delta
    /\ hist'.call.method = "item/completed" /\ "i1" \in DOMAIN hist.begun =>
          LET text == Flatten(DeltasOf(hist, "i1")) IN
          /\ Len(events) = 1
          /\ events[1].type = "patch_apply_end"
          /\ events[1].call_id = "i1"
          /\ events[1].changes = KeyedByPath(hist.begun["i1"])
          /\ events[1].stdout = IF p.item.stdout # Null THEN p.item.stdout
                                ELSE IF text = "" THEN Null ELSE text
          /\ events[1].success = StatedSuccess(p.item)

\* C23: patch_apply_delta per output delta, and patch_apply_end with the
\* change set of the start, the explicit or accumulated stdout and the
\* stated or status-derived success
Thm_C23_FileChangeFlow == [][FileChangeStep]_vars

\* C23 witness: a file change started with the changes of a.ts received the
\* deltas "b" and "a" and was completed with the status failed, ok = true
\* and no stdout: patch_apply_end carries the change set of a.ts, "ba" and
\* success
Wit_C23_FileChangeFlow ==
    /\ hist.call.method = "item/completed"
    /\ hist.call.params.item.stdout = Null
    /\ hist.call.params.item.status = "failed"
    /\ hist.call.params.item.success = Null
    /\ hist.call.params.item.ok = JsTrue
    /\ Len(hist.call.events) = 1
    /\ hist.call.events[1].type = "patch_apply_end"
    /\ hist.call.events[1].changes = "{a.ts}"
    /\ hist.call.events[1].stdout = "ba"
    /\ hist.call.events[1].success = JsTrue

(***************************************************************************)
(* PermissionSpec: registerAppServerPermissionHandlers, with or without    *)
(* the onUserInputRequest hook, and the approval and user-input requests   *)
(* of the runtime, each answered by the permission handler or the hook.    *)
(***************************************************************************)
PermissionDecisions == {"approved", "approved_for_session", "denied", "abort"}

\* mapDecision that grants for the session as for one call
mapDecision_SessionAsOnce(decision) ==
    CASE decision \in {"approved", "approved_for_session"} -> "accept"
      [] decision = "denied" -> "decline"
      [] decision = "abort" -> "cancel"

\* mapDecision(decision).decision
mapDecision(decision) ==
    CASE decision = "approved" -> "accept"
      [] decision = "approved_for_session" -> "acceptForSession"
      [] decision = "denied" -> "decline"
      [] decision = "abort" -> "cancel"

\* the answers a hook or a handler gives: none, arrays by question, or
\* records with an answers array by question
AnswerInputs == {Null, "{q1:[A]}", "{q1:{answers:[A]}}"}

\* normalizeAnswers: arrays of strings by question; {} for no answers
normalizeAnswers(answers) ==
    CASE answers = Null -> "{}"
      [] answers \in {"{q1:[A]}", "{q1:{answers:[A]}}"} -> "{q1:[A]}"

\* the reply of the user-input handlers to a result of the permission handler
userInputReply(decision, answers) ==
    IF decision \in {"approved", "approved_for_session"}
    THEN [decision |-> "accept", answers |-> normalizeAnswers(answers)]
    ELSE IF decision = "denied" THEN [decision |-> "decline", answers |-> Null]
    ELSE [decision |-> "cancel", answers |-> Null]

\* everything but the observations
PermissionFrame == converter' = converter /\ ConverterFrame

\* registerAppServerPermissionHandlers({ client, permissionHandler,
\* onUserInputRequest? })
RegisterHandlers ==
    \E hook \in BOOLEAN :
      /\ hist.permission.registered = "none"
      /\ hist' = [hist EXCEPT !.permission.registered =
                                  IF hook THEN "hooked" ELSE "plain"]
      /\ PermissionFrame

\* the tool call id of a request: its itemId (its id, for tool/requestUserInput),
\* else a random one
ToolCallId(method, itemId, id, n) ==
    LET given == IF method = "tool/requestUserInput"
                 THEN Coalesce(asString(itemId), asString(id))
                 ELSE asString(itemId)
    IN Coalesce(given, FreshId("uuid", n))

\* the request handlers are async: each runs to its await of
\* permissionHandler.handleToolCall (or of the hook) when the request
\* arrives, and replies when that promise resolves; requests that arrive
\* meanwhile run their own handler, and the answers come in any order
ApprovalMethods == {"item/commandExecution/requestApproval",
                    "item/fileChange/requestApproval"}

\* item/commandExecution/requestApproval and item/fileChange/requestApproval,
\* up to `await permissionHandler.handleToolCall(...)`
ApprovalRequest ==
    \E method \in ApprovalMethods, itemId \in {Null, "i1"} :
      LET p == hist.permission
          n == p.asked + p.hooked + 1
      IN
      /\ p.registered # "none"
      /\ p.asked + p.hooked < MaxRequests
      /\ hist' = [hist EXCEPT !.permission =
            [p EXCEPT !.asked = @ + 1,
                      !.uuids = IF asString(itemId) = Null THEN @ + 1 ELSE @,
                      !.open = Put(@, n,
                          [method |-> method,
                           toolCallId |-> ToolCallId(method, itemId, Null, p.uuids + 1),
                           toolName |-> IF method = "item/commandExecution/requestApproval"
                                        THEN "CodexBash" ELSE "CodexPatch"])]]
      /\ PermissionFrame

\* handleToolCall resolved: return mapDecision(result.decision)
ApprovalAnswered ==
    \E n \in DOMAIN hist.permission.open, result \in PermissionDecisions :
      LET p == hist.permission
          r == p.open[n]
      IN
      /\ r.method \in ApprovalMethods
      /\ hist' = [hist EXCEPT !.permission =
            [p EXCEPT !.open = Drop(@, n), !.replies = @ + 1, !.answered = n,
                      !.method = r.method, !.toolCallId = r.toolCallId,
                      !.toolName = r.toolName, !.result = result,
                      !.reply = [decision |-> mapDecision(result), answers |-> Null]]]
      /\ PermissionFrame

\* item/tool/requestUserInput and tool/requestUserInput, up to
\* `await onUserInputRequest(params)` with the hook, else up to
\* `await permissionHandler.handleToolCall(...)`
UserInputRequest ==
    \E method \in {"item/tool/requestUserInput", "tool/requestUserInput"},
       itemId \in {Null, "i1"}, id \in {Null, "i2"} :
      LET p == hist.permission
          n == p.asked + p.hooked + 1
          tid == ToolCallId(method, itemId, id, p.uuids + 1)
      IN
      /\ p.registered # "none"
      /\ p.asked + p.hooked < MaxRequests
      /\ hist' = [hist EXCEPT !.permission =
            IF p.registered = "hooked"
            THEN [p EXCEPT !.hooked = @ + 1,
                           !.open = Put(@, n, [method |-> method, toolCallId |-> Null,
                                               toolName |-> Null])]
            ELSE [p EXCEPT !.asked = @ + 1,
                           !.uuids = IF tid = FreshId("uuid", p.uuids + 1)
                                     THEN @ + 1 ELSE @,
                           !.open = Put(@, n, [method |-> method, toolCallId |-> tid,
                                               toolName |-> "request_user_input"])]]
      /\ PermissionFrame

\* the hook or handleToolCall resolved: the reply of the user-input handlers
UserInputAnswered ==
    \E n \in DOMAIN hist.permission.open, result \in PermissionDecisions,
       answers \in AnswerInputs :
      LET p == hist.permission
          r == p.open[n]
          viaHook == r.toolName = Null
      IN
      /\ r.method \notin ApprovalMethods
      /\ viaHook => result = "approved"
      /\ hist' = [hist EXCEPT !.permission =
            [p EXCEPT !.open = Drop(@, n), !.replies = @ + 1, !.answered = n,
                      !.method = r.method, !.toolCallId = r.toolCallId,
                      !.toolName = r.toolName,
                      !.result = IF viaHook THEN Null ELSE result,
                      !.reply = IF viaHook
                                THEN [decision |-> "accept",
                                      answers |-> normalizeAnswers(answers)]
                                ELSE userInputReply(result, answers)]]
      /\ PermissionFrame

PermissionNext ==
    \/ RegisterHandlers
    \/ ApprovalRequest
    \/ ApprovalAnswered
    \/ UserInputRequest
    \/ UserInputAnswered

PermissionSpec == ConverterInit /\ [][PermissionNext]_vars

(***************************************************************************)
(* C24.  Permission decisions map onto runtime decisions: every decision   *)
(* of the permission handler has a reply: approved -> accept,              *)
(* approved_for_session -> acceptForSession (accept for a user-input       *)
(* request), denied -> decline, abort -> cancel; with the hook registered  *)
(* a user-input request is answered accept by the hook and the permission  *)
(* handler is not called.                                                  *)
(***************************************************************************)
UserInputMethods == {"item/tool/requestUserInput", "tool/requestUserInput"}

\* the runtime decision each decision of the handler stands for
RuntimeDecision(decision, userInput) ==
    CASE decision = "approved" -> "accept"
      [] decision = "approved_for_session" ->
             IF userInput THEN "accept" ELSE "acceptForSession"
      [] decision = "denied" -> "decline"
      [] decision = "abort" -> "cancel"

\* a request that arrives calls the hook alone when it is registered and
\* the request asks for user input, else the permission handler alone; a
\* reply answers a request that was waiting, with accept for the hook and
\* with the runtime decision of the handler's decision otherwise
PermissionStep ==
    LET p == hist.permission
        q == hist'.permission
        n == p.asked + p.hooked + 1
    IN
    /\ q.asked + q.hooked > p.asked + p.hooked =>
          /\ n \in DOMAIN q.open /\ q.replies = p.replies
          /\ IF q.open[n].method \in UserInputMethods /\ p.registered = "hooked"
             THEN q.asked = p.asked /\ q.hooked = p.hooked + 1
             ELSE q.asked = p.asked + 1 /\ q.hooked = p.hooked
    /\ q.replies > p.replies =>
          /\ q.answered \in DOMAIN p.open /\ q.answered \notin DOMAIN q.open
          /\ q.method = p.open[q.answered].method
          /\ q.asked = p.asked /\ q.hooked = p.hooked
          /\ IF q.method \in UserInputMethods /\ p.registered = "hooked"
             THEN q.reply.decision = "accept" /\ q.toolName = Null
             ELSE /\ q.result \in PermissionDecisions
                  /\ q.reply.decision =
                         RuntimeDecision(q.result, q.method \in UserInputMethods)

\* C24: each request is answered with the runtime decision of the handler's
\* decision, or by the hook alone when it is registered and the request asks
\* for user input
Thm_C24_PermissionMapping == [][PermissionStep]_vars

\* C24 witness: with the hook registered, one approval request went to the
\* permission handler, and a user-input request that arrived after it was
\* answered accept by the hook, without a call of the handler, while the
\* approval request was still waiting
Wit_C24_PermissionMapping ==
    /\ hist.permission.registered = "hooked"
    /\ hist.permission.method = "item/tool/requestUserInput"
    /\ hist.permission.reply.decision = "accept"
    /\ hist.permission.asked = 1
    /\ hist.permission.hooked = 1
    /\ hist.permission.toolName = Null
    /\ hist.permission.answered = 2
    /\ DOMAIN hist.permission.open = {1}

(***************************************************************************)
(* C25.  Plan events open or reuse one call per turn: while a turn runs,   *)
(* every tool-call sent for a turn_plan_updated, agent_plan_delta or       *)
(* plan_item_started of the turn carries one and the same call id, the one *)
(* the plan-call map records under the turn id.                            *)
(***************************************************************************)
\* C25: the plan calls sent during a running turn are the call recorded for
\* the turn in planCallIdByTurn
CE_C25_OnePlanCallPerTurn ==
    \A t \in Running : \A c \in planCalls :
        callOwner[c] = t =>
            /\ t \in DOMAIN planCallIdByTurn
            /\ planCallIdByTurn[t] = c

(***************************************************************************)
(* LifecycleSpec: the notification handler (app-server mode) and the raw   *)
(* event handler (MCP mode) of a created session receive thread, turn,     *)
(* delta and diff events in any order, of turns the loop did not ask for   *)
(* included.                                                               *)
(***************************************************************************)
\* what an event handler leaves alone, besides what handleCodexEvent sets
LifecycleFrame ==
    UNCHANGED <<useAppServer, abortController, abortedScopes, shouldExit, queue,
                loopLocals, rtTurn, enqueued, abortReqs, corr, abortsAwaiting,
                lastCmd, interruptCalls>>

\* the observations after an event: the call, and what the buffers held
\* when a terminal event arrived
Observed(method, params, events) ==
    [hist EXCEPT !.call = [method |-> method, params |-> params, events |-> events],
                 !.stale = IF events # <<>> /\ IsTerminal(events[1])
                           THEN Holding(converter) ELSE @]

\* the notification handler receives method(params)
LcNotify(method, params) ==
    /\ useAppServer /\ evCount < MaxEvents
    /\ evCount' = evCount + 1
    /\ Notify("t1", method, params)
    /\ hist' = Observed(method, params, convert(converter, method, params).events)
    /\ LifecycleFrame

\* thread/started { thread: { id } }
LcThreadStarted ==
    \E x \in {OldThreadId, NewThreadId} :
       LcNotify("thread/started",
                [BlankParams EXCEPT !.thread = [NoRecord EXCEPT !.present = TRUE,
                                                  !.id = x]])

\* turn/started { turn: { id } }
LcTurnStarted ==
    \E t \in {"t1", "t2"} :
       LcNotify("turn/started",
                [BlankParams EXCEPT !.turn = [NoRecord EXCEPT !.present = TRUE,
                                                !.id = t]])

\* turn/completed { turn: { id, status } }
LcTurnCompleted ==
    \E st \in {"completed", "interrupted", "failed"} :
       LcNotify("turn/completed",
                [BlankParams EXCEPT !.turn = [NoRecord EXCEPT !.present = TRUE,
                                                !.id = "t1", !.status = st]])

\* item/reasoning/textDelta and turn/diff/updated
LcStreamed ==
    \/ LcNotify("item/reasoning/textDelta",
                [BlankParams EXCEPT !.turnId = "t1", !.itemId = "i1", !.delta = "a"])
    \/ LcNotify("turn/diff/updated",
                [BlankParams EXCEPT !.turnId = "t1", !.diff = "diff1"])

\* a raw event of the MCP client: task_started, a turn_diff or a terminal
\* event, with or without a turn id
LcRawEvent ==
    \E ty \in {"task_started", "turn_diff"} \cup TerminalTypes, tid \in {Null, "t1"} :
      LET msg == [BlankMsg EXCEPT !.type = ty, !.turn_id = tid,
                     !.unified_diff = IF ty = "turn_diff" THEN "diff1" ELSE Null]
      IN
      /\ ~useAppServer /\ evCount < MaxEvents
      /\ evCount' = evCount + 1
      /\ FeedTurn("t1", msg)
      /\ converter' = converter
      /\ hist' = Observed("raw", BlankParams, <<msg>>)
      /\ LifecycleFrame

LifecycleNext ==
    \/ LcThreadStarted
    \/ LcTurnStarted
    \/ LcTurnCompleted
    \/ LcStreamed
    \/ LcRawEvent

LifecycleSpec == EmitterInit /\ [][LifecycleNext]_vars

(***************************************************************************)
(* C26.  Lifecycle transitions: a task_started with turn id T makes T the  *)
(* current turn and, in app-server mode, sets turn-in-flight; a terminal   *)
(* event clears turn-in-flight and the current turn id and resets the diff *)
(* processor and the notification buffers; a thread_started with id X      *)
(* makes X the current thread (and tells the session) and changes nothing  *)
(* else of the handler's state.                                            *)
(***************************************************************************)
LifecycleStep ==
    hist'.call.events # <<>> =>
        LET e == hist'.call.events[1] IN
        /\ e.type = "task_started" /\ e.turn_id # Null =>
              /\ currentTurnId' = e.turn_id
              /\ useAppServer => turnInFlight'
        /\ e.type \in TerminalTypes =>
              /\ ~turnInFlight'
              /\ currentTurnId' = Null
              /\ collab'.diffProcessor = "idle"
              /\ converter' = EmptyConverter
        /\ e.type = "thread_started" =>
              /\ currentThreadId' = e.thread_id
              /\ UNCHANGED <<currentTurnId, turnInFlight, thinking, collab, converter,
                             emitterVars>>

\* C26: the transitions of task_started, of the three terminal events and of
\* thread_started
Thm_C26_LifecycleTransitions == [][LifecycleStep]_vars

\* C26 witness: a reasoning delta was buffered when the turn of the new
\* thread was reported interrupted: afterwards no turn is in flight or
\* current, and the diff processor and the buffers are clean
Wit_C26_LifecycleTransitions ==
    /\ hist.call.method = "turn/completed"
    /\ Len(hist.call.events) = 1
    /\ hist.call.events[1].type = "turn_aborted"
    /\ <<"reasoningBuffers", "i1">> \in hist.stale
    /\ ~turnInFlight /\ currentTurnId = Null
    /\ collab.diffProcessor = "idle"
    /\ converter = EmptyConverter
    /\ currentThreadId = NewThreadId

(***************************************************************************)
(* C27.  Closing the plan call: a terminal event of turn T that finds a    *)
(* plan call recorded for T sends one tool-call-result for that call,      *)
(* whose output status is the type of the terminal event and whose         *)
(* is_error is true exactly for task_failed; a terminal event that finds   *)
(* no plan call recorded for its turn sends no tool-call-result.           *)
(***************************************************************************)
PlanCloseStep ==
    evCount' # evCount /\ IsTerminal(hist'.fed) =>
        LET e == hist'.fed
            T == MsgTurnId(e)
        IN
        IF T # Null /\ T \in DOMAIN planCallIdByTurn
        THEN /\ hist'.closing.callId = planCallIdByTurn[T]
             /\ hist'.closing.status = e.type
             /\ hist'.closing.is_error = (e.type = "task_failed")
             /\ toolResults' = Bump(toolResults, planCallIdByTurn[T])
        ELSE /\ hist'.closing = NoResult
             /\ toolResults' = toolResults

\* C27: the result that closes the open plan call of a turn carries the
\* terminal status and flags an error only for task_failed; without a
\* recorded plan call nothing is sent
Thm_C27_PlanCallClose == [][PlanCloseStep]_vars

\* C27 witness: the plan call of turn t1 was closed by task_failed with an
\* error result, and the entry of the turn is gone
Wit_C27_PlanCallClose ==
    /\ hist.fed.type = "task_failed"
    /\ hist.fed.turn_id = "t1"
    /\ hist.closing = [callId |-> PlanCallId("t1"), status |-> "task_failed",
                       error |-> Null, is_error |-> TRUE]
    /\ Count(toolResults, PlanCallId("t1")) = 1
    /\ "t1" \notin DOMAIN planCallIdByTurn

(***************************************************************************)
(* C28.  Missing thread id on continue.  The restart of Dispatch for a     *)
(* created session without a thread id is never taken: wasCreated is set   *)
(* only after this.currentThreadId was assigned the thread of the session, *)
(* and the catch block that clears the thread id clears wasCreated with    *)
(* it.  CreatedHasThread holds in every state of Spec, ModesSpec and       *)
(* CleanupSpec, so no run reaches the case the claim is about.             *)
(***************************************************************************)
CreatedHasThread ==
    /\ useAppServer /\ wasCreated => currentThreadId # Null
    /\ hist.restart # "thread"

(***************************************************************************)
(* OwnershipSpec: the converter receives the deltas, starts and            *)
(* completions of one item id under every buffered type (and reasoning     *)
(* deltas without an item id), and is reset, in any order.                 *)
(***************************************************************************)
\* the buffer each delta method appends to
BufferOfMethod ==
    [m \in {"item/agentMessage/delta", "item/plan/delta", "item/reasoning/textDelta",
            "item/reasoning/summaryTextDelta",
            "item/commandExecution/outputDelta", "item/fileChange/outputDelta"} |->
        CASE m = "item/agentMessage/delta" -> "agentMessageBuffers"
          [] m = "item/plan/delta" -> "planBuffers"
          [] m \in {"item/reasoning/textDelta", "item/reasoning/summaryTextDelta"} ->
                "reasoningBuffers"
          [] m = "item/commandExecution/outputDelta" -> "commandOutputBuffers"
          [] m = "item/fileChange/outputDelta" -> "fileChangeOutputBuffers"]

\* the buffer the completion of each buffered item type deletes from
BufferOfType ==
    [agentMessage |-> "agentMessageBuffers", reasoning |-> "reasoningBuffers",
     plan |-> "planBuffers", commandExecution |-> "commandOutputBuffers",
     fileChange |-> "fileChangeOutputBuffers"]

\* the metadata cache of the item types that have one
MetaOfType == [commandExecution |-> "commandMeta", fileChange |-> "fileChangeMeta"]

\* a delta notification { itemId?, delta } of one of the five buffers; a
\* reasoning delta without an item id is kept under the key 'reasoning'
OwnDelta ==
    \E method \in DOMAIN BufferOfMethod, i \in {Null, "i1"}, d \in {"", "o"} :
      /\ TotalBuffered(converter) + Len(d) <= MaxDeltas
      /\ Call(method, [BlankParams EXCEPT !.itemId = i, !.delta = d],
              [hist EXCEPT !.fedTo =
                  IF d = "" THEN @
                  ELSE IF i # Null THEN @ \cup {<<BufferOfMethod[method], i>>}
                  ELSE IF BufferOfMethod[method] = "reasoningBuffers"
                       THEN @ \cup {<<"reasoningBuffers", "reasoning">>}
                  ELSE @])

\* item/started { item: { id, type, text } } of a buffered type
OwnStarted ==
    \E ty \in DOMAIN BufferOfType, tx \in {Null, "x"} :
      Call("item/started",
           [BlankParams EXCEPT
               !.item = [NoItem EXCEPT !.present = TRUE, !.id = "i1", !.type = ty,
                           !.text = tx, !.command = "ls", !.changes = "{a.ts}"]],
           [hist EXCEPT !.fedTo = IF ty = "plan" /\ tx # Null
                                  THEN @ \cup {<<"planBuffers", "i1">>} ELSE @])

\* item/completed { item: { id, type, text } } of a buffered type or of an
\* MCP tool call
OwnCompleted ==
    \E ty \in (DOMAIN BufferOfType) \cup {"mcpToolCall"}, tx \in {Null, "x"} :
      Call("item/completed",
           [BlankParams EXCEPT
               !.item = [NoItem EXCEPT !.present = TRUE, !.id = "i1", !.type = ty,
                           !.text = tx, !.status = "completed"]],
           [hist EXCEPT !.fedTo = IF ty \in DOMAIN BufferOfType
                                  THEN @ \ {<<BufferOfType[ty], "i1">>} ELSE @])

\* converter.reset()
OwnReset ==
    /\ converter' = reset(converter)
    /\ hist' = [hist EXCEPT !.call = [NoCall EXCEPT !.method = "reset"], !.fedTo = {}]
    /\ ConverterFrame

OwnershipNext ==
    \/ OwnDelta
    \/ OwnStarted
    \/ OwnCompleted
    \/ OwnReset

OwnershipSpec == ConverterInit /\ [][OwnershipNext]_vars

(***************************************************************************)
(* C29.  Buffer ownership lifecycle: an entry of one of the five delta     *)
(* buffers exists only if, since the last reset and since the last         *)
(* completion of an item of the buffer's type with that id, a delta with a *)
(* text (or, for the plan buffer, a plan start with a text) arrived for    *)
(* the buffer and the id; and an item/completed of a buffered type leaves  *)
(* no entry for the item id in the buffer and the metadata cache of that   *)
(* type, whether or not it yielded an event.                               *)
(***************************************************************************)
\* the entries of the five delta buffers
BufferEntries(cv) == {p \in Holding(cv) : p[1] \in {BufferOfType[ty] : ty \in DOMAIN BufferOfType}}

OwnershipStep ==
    /\ BufferEntries(converter') \subseteq hist'.fedTo
    /\ \A ty \in DOMAIN BufferOfType :
          /\ hist'.call.method = "item/completed"
          /\ hist'.call.params.item.type = ty
          => /\ <<BufferOfType[ty], "i1">> \notin Holding(converter')
             /\ ty \in DOMAIN MetaOfType =>
                   <<MetaOfType[ty], "i1">> \notin Holding(converter')

\* C29: every buffer entry is owed to a delta or plan start since the last
\* reset and completion, and a completion deletes the buffer and metadata
\* entries of its type for the item
Thm_C29_BufferOwnership == [][OwnershipStep]_vars

\* C29 witness: an agentMessage item that had received an empty delta only
\* was completed without a text: no event was emitted, nothing is held for
\* it in the message buffer, while the output a command of the same id
\* received is still held
Wit_C29_BufferOwnership ==
    /\ hist.call.method = "item/completed"
    /\ hist.call.params.item.type = "agentMessage"
    /\ hist.call.events = <<>>
    /\ <<"agentMessageBuffers", "i1">> \notin Holding(converter)
    /\ hist.fedTo = {<<"commandOutputBuffers", "i1">>}
    /\ BufferEntries(converter) = {<<"commandOutputBuffers", "i1">>}

(***************************************************************************)
(* PlanSpec: the converter receives the starts, deltas and completions of  *)
(* two plan items, and is reset, in any order.                             *)
(***************************************************************************)
\* the seed and the plan deltas observed for an item
PlanFedOf(h, i) == IF i \in DOMAIN h.planFed THEN h.planFed[i] ELSE <<>>

\* the texts observed for all plan items
PlanFedCount(h) == Len(PlanFedOf(h, "i1")) + Len(PlanFedOf(h, "i2"))

\* item/started { item: { id, type: 'plan', text } }
PlanStarted ==
    \E i \in ItemIds, tx \in {Null, "S"} :
      /\ tx # Null => PlanFedCount(hist) - Len(PlanFedOf(hist, i)) < MaxDeltas
      /\ Call("item/started",
              [BlankParams EXCEPT
                  !.item = [NoItem EXCEPT !.present = TRUE, !.id = i, !.type = "plan",
                              !.text = tx]],
              [hist EXCEPT !.planFed = IF tx # Null THEN Put(@, i, <<tx>>) ELSE @])

\* item/plan/delta { itemId, delta }
PlanDelta ==
    \E i \in ItemIds, d \in {"", "a", "b"} :
      /\ d # "" => PlanFedCount(hist) < MaxDeltas
      /\ Call("item/plan/delta",
              [BlankParams EXCEPT !.itemId = i, !.delta = d],
              [hist EXCEPT !.planFed =
                  IF d # "" THEN Put(@, i, Append(PlanFedOf(hist, i), d)) ELSE @])

\* item/completed { item: { id, type: 'plan', text } }
PlanCompleted ==
    \E i \in ItemIds, tx \in {Null, "x"} :
      Call("item/completed",
           [BlankParams EXCEPT
               !.item = [NoItem EXCEPT !.present = TRUE, !.id = i, !.type = "plan",
                           !.text = tx, !.status = "completed"]],
           [hist EXCEPT !.planFed = Drop(@, i)])

\* converter.reset()
PlanReset ==
    /\ converter' = reset(converter)
    /\ hist' = [hist EXCEPT !.call = [NoCall EXCEPT !.method = "reset"],
                            !.planFed = EmptyMap]
    /\ ConverterFrame

PlanNext ==
    \/ PlanStarted
    \/ PlanDelta
    \/ PlanCompleted
    \/ PlanReset

PlanSpec == ConverterInit /\ [][PlanNext]_vars

(***************************************************************************)
(* C30.  Plan delta accumulation: a plan delta with a text yields one      *)
(* agent_plan_delta whose plan_text is the seed text of the item's last    *)
(* plan start (if it had one), then the deltas received after it, then the *)
(* delta itself; a plan item/completed without a text carries the text     *)
(* accumulated so (no text when there is none), and every plan completion  *)
(* clears the item's buffer.                                               *)
(***************************************************************************)
PlanStep ==
    LET call == hist'.call
        i == IF call.method = "item/plan/delta" THEN call.params.itemId
             ELSE call.params.item.id
        before == Flatten(PlanFedOf(hist, i))
    IN
    /\ call.method = "item/plan/delta" /\ call.params.delta # "" =>
          /\ Len(call.events) = 1
          /\ call.events[1].type = "agent_plan_delta"
          /\ call.events[1].item_id = i
          /\ call.events[1].delta = call.params.delta
          /\ call.events[1].plan_text = before \o call.params.delta
          /\ Get(converter'.planBuffers, i) = before \o call.params.delta
    /\ call.method = "item/plan/delta" /\ call.params.delta = "" =>
          call.events = <<>> /\ converter' = converter
    /\ call.method = "item/completed" =>
          /\ Len(call.events) = 1
          /\ call.events[1].type = "plan_item_completed"
          /\ call.events[1].text =
                IF call.params.item.text # Null THEN call.params.item.text
                ELSE IF before # "" THEN before ELSE Null
          /\ i \notin DOMAIN converter'.planBuffers

\* C30: plan_text is the seed and the deltas so far followed by the delta,
\* and a completion without a text carries the accumulated text and clears
\* the buffer
Thm_C30_PlanAccumulation == [][PlanStep]_vars

\* C30 witness: a plan item that was started with the text S and received
\* the delta a was completed without a text: the completion carries Sa and
\* the item's buffer is gone
Wit_C30_PlanAccumulation ==
    /\ hist.call.method = "item/completed"
    /\ hist.call.params.item.text = Null
    /\ Len(hist.call.events) = 1
    /\ hist.call.events[1].text = "Sa"
    /\ hist.call.params.item.id \notin DOMAIN converter.planBuffers

(***************************************************************************)
(* ReasoningSpec: the converter receives raw and summary reasoning deltas, *)
(* with and without an item id, and the completion of the reasoning item,  *)
(* and is reset, in any order.                                             *)
(***************************************************************************)
\* the reasoning deltas observed under a buffer key
RsnFedOf(h, k) == IF k \in DOMAIN h.rsnFed THEN h.rsnFed[k] ELSE <<>>

RECURSIVE RsnText(_)
\* the texts of the observed reasoning deltas, concatenated in arrival order
RsnText(seq) == IF seq = <<>> THEN "" ELSE Head(seq).delta \o RsnText(Tail(seq))

\* item/reasoning/textDelta and item/reasoning/summaryTextDelta
\* { itemId?, delta, summaryIndex? }
RsnDelta ==
    \E method \in {"item/reasoning/textDelta", "item/reasoning/summaryTextDelta"},
       i \in {Null, "i1"}, d \in {"", "a", "b"}, n \in {Null, "#1"} :
      LET k == IF i = Null THEN "reasoning" ELSE i IN
      /\ d # "" => Len(RsnFedOf(hist, "i1")) + Len(RsnFedOf(hist, "reasoning")) < MaxDeltas
      /\ Call(method,
              [BlankParams EXCEPT !.itemId = i, !.delta = d, !.summaryIndex = n],
              [hist EXCEPT !.rsnFed =
                  IF d # ""
                  THEN Put(@, k, Append(RsnFedOf(hist, k),
                                        [method |-> method, delta |-> d]))
                  ELSE @])

\* item/completed { item: { id, type: 'reasoning', text } }
RsnCompleted ==
    \E tx \in {Null, "x"} :
      Call("item/completed",
           [BlankParams EXCEPT
               !.item = [NoItem EXCEPT !.present = TRUE, !.id = "i1",
                           !.type = "reasoning", !.text = tx, !.status = "completed"]],
           [hist EXCEPT !.rsnFed = Drop(@, "i1"), !.rsnLast = RsnFedOf(hist, "i1")])

\* converter.reset()
RsnReset ==
    /\ converter' = reset(converter)
    /\ hist' = [hist EXCEPT !.call = [NoCall EXCEPT !.method = "reset"],
                            !.rsnFed = EmptyMap]
    /\ ConverterFrame

ReasoningNext ==
    \/ RsnDelta
    \/ RsnCompleted
    \/ RsnReset

ReasoningSpec == ConverterInit /\ [][ReasoningNext]_vars

(***************************************************************************)
(* C31.  Reasoning streams share one buffer per item id: a raw or summary  *)
(* reasoning delta with a text yields one agent_reasoning_delta tagged raw *)
(* or summary after its method and is appended to the buffer of its item   *)
(* id, or of the key 'reasoning' when it has no item id; a reasoning item  *)
(* completed without a text yields agent_reasoning whose text is the       *)
(* concatenation of the raw and summary deltas of the item in arrival      *)
(* order.                                                                  *)
(***************************************************************************)
ReasoningStep ==
    LET call == hist'.call
        k == IF call.params.itemId = Null THEN "reasoning" ELSE call.params.itemId
    IN
    /\ call.method \in {"item/reasoning/textDelta", "item/reasoning/summaryTextDelta"}
       /\ call.params.delta # "" =>
          /\ Len(call.events) = 1
          /\ call.events[1].type = "agent_reasoning_delta"
          /\ call.events[1].delta = call.params.delta
          /\ call.events[1].item_id = k
          /\ call.events[1].reasoning_stream =
                (IF call.method = "item/reasoning/textDelta" THEN "raw" ELSE "summary")
          /\ Get(converter'.reasoningBuffers, k) =
                RsnText(RsnFedOf(hist, k)) \o call.params.delta
          /\ \A o \in {"i1", "reasoning"} \ {k} :
                Get(converter'.reasoningBuffers, o) = Get(converter.reasoningBuffers, o)
    /\ call.method = "item/completed" /\ call.params.item.text = Null =>
          IF RsnFedOf(hist, "i1") = <<>> THEN call.events = <<>>
          ELSE /\ Len(call.events) = 1
               /\ call.events[1].type = "agent_reasoning"
               /\ call.events[1].text = RsnText(RsnFedOf(hist, "i1"))

\* C31: reasoning deltas are tagged after their stream and share the buffer
\* of their item id (or of the key 'reasoning'), which the completion
\* without a text reports
Thm_C31_ReasoningShared == [][ReasoningStep]_vars

\* C31 witness: a reasoning item that received the raw delta a and then the
\* summary delta b was completed without a text and reported ab
Wit_C31_ReasoningShared ==
    /\ hist.call.method = "item/completed"
    /\ hist.call.params.item.text = Null
    /\ hist.rsnLast = <<[method |-> "item/reasoning/textDelta", delta |-> "a"],
                        [method |-> "item/reasoning/summaryTextDelta", delta |-> "b"]>>
    /\ Len(hist.call.events) = 1
    /\ hist.call.events[1].type = "agent_reasoning"
    /\ hist.call.events[1].text = "ab"

(***************************************************************************)
(* ToolProtocolSpec: the notification handler receives the starts and      *)
(* completions of command, file-change and review-mode items and the       *)
(* output deltas of file changes, of one turn, in any order; each          *)
(* notification is converted and its event handled by handleCodexEvent.    *)
(***************************************************************************)
\* the item types of the runs
ToolItemTypes == {"commandExecution", "fileChange", "enteredReviewMode", "exitedReviewMode"}

\* item/started { turnId, item: { id, type } }
TpItemStarted ==
    \E i \in ItemIds, ty \in ToolItemTypes :
       LcNotify("item/started",
                [BlankParams EXCEPT !.turnId = "t1",
                    !.item = [NoItem EXCEPT !.present = TRUE, !.id = i, !.type = ty,
                                !.command = "ls", !.changes = "{a.ts}"]])

\* item/completed { turnId, item: { id, type, status } }
TpItemCompleted ==
    \E i \in ItemIds, ty \in ToolItemTypes :
       LcNotify("item/completed",
                [BlankParams EXCEPT !.turnId = "t1",
                    !.item = [NoItem EXCEPT !.present = TRUE, !.id = i, !.type = ty,
                                !.status = "completed"]])

\* item/fileChange/outputDelta { turnId, itemId, delta }
TpPatchDelta ==
    \E i \in ItemIds :
       /\ TotalBuffered(converter) < MaxDeltas
       /\ LcNotify("item/fileChange/outputDelta",
                   [BlankParams EXCEPT !.turnId = "t1", !.itemId = i, !.delta = "o"])

ToolProtocolNext ==
    \/ TpItemStarted
    \/ TpItemCompleted
    \/ TpPatchDelta

\* the handler in app-server mode, before the first notification
ToolProtocolInit == EmitterInit /\ useAppServer = TRUE

ToolProtocolSpec == ToolProtocolInit /\ [][ToolProtocolNext]_vars

(***************************************************************************)
(* C32.  Tool-call protocol well-formedness: every call id a               *)
(* tool-call-result was sent with has had a tool-call sent with it.  (A    *)
(* tool-call is never taken back, so this holding in every state is the    *)
(* result being preceded by the call.)  It fails: the review-mode exit is  *)
(* an item of its own, with its own id, and its result answers no call;    *)
(* so do a completion and a patch delta that arrive without a start.       *)
(***************************************************************************)
CE_C32_ResultAfterCall ==
    \A c \in DOMAIN toolResults : Count(toolResults, c) > 0 => Count(toolCalls, c) > 0

\* the run of the converter's test: review mode is entered as item i1 and
\* left as item i2, and nothing else happens
ReviewRun ==
    /\ evCount = 2
    /\ Count(toolCalls, "i1") = 1 /\ Count(toolResults, "i1") = 0
    /\ Count(toolCalls, "i2") = 0 /\ Count(toolResults, "i2") = 1
    /\ hist.call.method = "item/completed"
    /\ hist.call.params.item.type = "exitedReviewMode"

(***************************************************************************)
(* CleanupSpec: the session loop of a new session in app-server mode,      *)
(* while the runtime streams the deltas and the diff of the running turns. *)
(***************************************************************************)
CleanupInit == useAppServer = TRUE /\ sessionId = Null /\ LoopInit

CleanupNext ==
    \/ LoopNext
    \/ StartThreadResolved
    \/ StartTurnResolved
    \/ InterruptSettled
    \/ NotifyTurnStarted
    \/ NotifyTurnCompleted
    \/ NotifyTurnDiff
    \/ NotifyDelta
    \/ NotifySectionBreak

CleanupSpec == CleanupInit /\ [][CleanupNext]_vars

(***************************************************************************)
(* C33.  A terminal event only affects the turn it belongs to: when the    *)
(* terminal event of turn A is handled while a newer turn B is the current *)
(* turn, is running and is in flight, B's current turn id, the             *)
(* turn-in-flight flag and the converter's buffers stay as they are.  It   *)
(* fails: the handler clears the current turn id and the flag and resets   *)
(* the converter on every terminal event, whatever its turn id.            *)
(***************************************************************************)
\* the terminal event of turn a is handled in this step
TerminalHandled(a) == Count(terminalCount', a) > Count(terminalCount, a)

LateTerminalStep ==
    \A a \in DOMAIN rtTurn :
        /\ TerminalHandled(a)
        /\ currentTurnId \in (DOMAIN rtTurn) \ {a}
        /\ rtTurn[currentTurnId] = "running"
        /\ turnInFlight
        => /\ currentTurnId' = currentTurnId
           /\ turnInFlight' = turnInFlight
           /\ converter' = converter

CE_C33_TerminalOnlyOwnTurn == [][LateTerminalStep]_vars

(***************************************************************************)
(* InFlightSpec: the session loop of CleanupSpec, with the runtime also    *)
(* announcing and completing one command of the first turn while it runs.  *)
(***************************************************************************)
\* item/started { turnId, item: { id, type: 'commandExecution', command } } of
\* the first turn, once
NotifyItemStarted ==
    /\ useAppServer /\ pc \in CallbackPcs
    /\ "t1" \in Running /\ "i1" \notin hist.started
    /\ LET params == [BlankParams EXCEPT !.turnId = "t1",
                         !.item = [NoItem EXCEPT !.present = TRUE, !.id = "i1",
                                     !.type = "commandExecution", !.command = "ls"]]
       IN /\ Notify("t1", "item/started", params)
          /\ hist' = [hist EXCEPT !.started = @ \cup {"i1"},
                         !.call = [method |-> "item/started", params |-> params,
                                   events |-> convert(converter, "item/started",
                                                      params).events]]
    /\ UNCHANGED rtTurn
    /\ NotifyFrame

\* item/completed { turnId, item: { id, type: 'commandExecution', status } } of
\* the command, once
NotifyItemCompleted ==
    /\ useAppServer /\ pc \in CallbackPcs
    /\ "t1" \in Running /\ "i1" \in hist.started /\ Count(toolResults, "i1") = 0
    /\ LET params == [BlankParams EXCEPT !.turnId = "t1",
                         !.item = [NoItem EXCEPT !.present = TRUE, !.id = "i1",
                                     !.type = "commandExecution",
                                     !.status = "completed"]]
       IN /\ Notify("t1", "item/completed", params)
          /\ hist' = [hist EXCEPT
                         !.call = [method |-> "item/completed", params |-> params,
                                   events |-> convert(converter, "item/completed",
                                                      params).events]]
    /\ UNCHANGED rtTurn
    /\ NotifyFrame

InFlightNext ==
    \/ CleanupNext
    \/ NotifyItemStarted
    \/ NotifyItemCompleted

InFlightSpec == CleanupInit /\ [][InFlightNext]_vars

(***************************************************************************)
(* C34.  The loop's per-iteration cleanup never discards state of a turn   *)
(* still in flight: when the command started in the first turn completes   *)
(* while that turn is running, with no abort requested and no terminal     *)
(* event handled in between, the completion event carries the command the  *)
(* start announced.  It fails: the finally block runs as soon as startTurn *)
(* has returned and resets the converter, with the turn still running.     *)
(***************************************************************************)
InFlightStep ==
    /\ hist'.call.method = "item/completed"
    /\ Count(toolResults', "i1") > Count(toolResults, "i1")
    /\ "t1" \in Running /\ abortReqs = 0 /\ terminalCount = EmptyMap
    => /\ Len(hist'.call.events) = 1
       /\ hist'.call.events[1].type = "exec_command_end"
       /\ hist'.call.events[1].command = "ls"

CE_C34_CleanupKeepsInFlight == [][InFlightStep]_vars

(***************************************************************************)
(* C35.  Every abort requested while a turn is in flight in app-server     *)
(* mode results in an interruptTurn call: the step that takes an abort     *)
(* request with turnInFlight set appends a call to the interruptTurn       *)
(* calls.  It fails: handleAbort calls interruptTurn only when the current *)
(* turn id is known, and it is not between the issue of startTurn and the  *)
(* response or the turn's task_started.                                    *)
(***************************************************************************)
AbortInFlightStep ==
    abortReqs' = abortReqs + 1 /\ useAppServer /\ turnInFlight
    => Len(interruptCalls') = Len(interruptCalls) + 1

CE_C35_AbortInterruptsInFlight == [][AbortInFlightStep]_vars

(***************************************************************************)
(* C36.  In app-server mode the session-created flag implies a known       *)
(* thread: whenever the loop is at the top of an iteration, waiting for a  *)
(* message or about to dispatch one, wasCreated implies that the current   *)
(* thread id is known, and the restart for a missing thread id was never   *)
(* taken.                                                                  *)
(***************************************************************************)
Thm_C36_CreatedImpliesThread ==
    /\ useAppServer /\ pc \in {"top", "wait", "dispatch"} /\ wasCreated
          => currentThreadId # Null
    /\ hist.restart # "thread"

\* C36 witness: the loop is about to dispatch the second message of a
\* created session after an abort, and the thread is known
Wit_C36_CreatedImpliesThread ==
    /\ useAppServer /\ pc = "dispatch" /\ wasCreated
    /\ message.id = 2 /\ abortReqs = 1
    /\ currentThreadId # Null

(***************************************************************************)
(* C37.  The thinking indicator tracks the turn: the cleanup of the loop   *)
(* leaves session.thinking true while a turn whose task_started was        *)
(* processed has not had its terminal event processed.  It fails: the      *)
(* finally block clears the indicator whether or not a turn is in flight.  *)
(***************************************************************************)
ThinkingStep ==
    pc = "finally" /\ pc' = "top" /\ InFlightTurns # {} /\ thinking
    => thinking'

CE_C37_ThinkingTracksTurn == [][ThinkingStep]_vars

(***************************************************************************)
(* C38.  Each user message dequeued from the queue is submitted to the     *)
(* runtime by at most one startTurn / startSession / continueSession call, *)
(* also when it is carried over as pending through a restart, and also     *)
(* after its iteration failed or was cancelled.                            *)
(***************************************************************************)
Thm_C38_SubmittedOnce ==
    \A m \in DOMAIN hist.submitted : Count(hist.submitted, m) <= 1

\* C38 witness: the second message was carried over as pending through a
\* mode-change restart and has been submitted by one startSession call, after
\* the first message was submitted once
Wit_C38_SubmittedOnce ==
    /\ pc = "startSession" /\ message.id = 2
    /\ hist.restart = "mode"
    /\ Count(hist.submitted, 1) = 1
    /\ Count(hist.submitted, 2) = 1

(***************************************************************************)
(* LiveSpec: the app-server loop of Spec, where the loop goes on whenever  *)
(* it can (an async function resumes once the promise it awaits has        *)
(* settled), every call to the runtime eventually settles, and so does     *)
(* the interruptTurn call of an abort.                                     *)
(***************************************************************************)
\* the steps of the loop itself and the settling of the call it awaits
LoopProgress ==
    \/ LoopTop
    \/ WaitBatch
    \/ WaitCancelled
    \/ Dispatch
    \/ Catch
    \/ Finally
    \/ ResumeResolved
    \/ ResumeRejected
    \/ ResumeCancelled
    \/ StartThreadResolved
    \/ StartTurnResolved
    \/ RpcRejected
    \/ RpcCancelled
    \/ Cleanup

LiveSpec == Init /\ [][Next]_vars /\ WF_vars(LoopProgress) /\ WF_vars(InterruptSettled)

(***************************************************************************)
(* C39.  An abort received while the loop is idle does not end the loop:   *)
(* when the wait returns because its signal was aborted and no exit was    *)
(* requested, the loop goes back to its top, it then waits again on a      *)
(* scope that is not aborted (unless an exit is requested meanwhile), and  *)
(* a message in the queue of such a wait is dispatched (unless the wait is *)
(* aborted again).                                                         *)
(***************************************************************************)
\* the idle wait was cancelled by an abort, and no exit was requested
IdleAborted == pc = "wait" /\ rpcSignal \in abortedScopes /\ ~shouldExit

\* the loop waits for the next batch on the current scope, which is not aborted
WaitsOnFreshScope ==
    pc = "wait" /\ rpcSignal = abortController /\ rpcSignal \notin abortedScopes

Thm_C39_IdleAbortContinues ==
    /\ [][IdleAborted /\ pc' # "wait" => pc' = "top"]_vars
    /\ IdleAborted ~> (WaitsOnFreshScope \/ shouldExit)
    /\ (WaitsOnFreshScope /\ queue # <<>>) ~> (pc = "dispatch" \/ rpcSignal \in abortedScopes)

\* C39 witness: the first message is dispatched after an abort: the abort
\* came while the loop was idle, the message was queued after it (the abort
\* empties the queue) and was taken by a wait on the scope made after it
Wit_C39_IdleAbortContinues ==
    /\ pc = "dispatch" /\ message.id = 1
    /\ abortReqs = 1 /\ ~shouldExit
    /\ abortController = 1 /\ rpcSignal = 1 /\ abortedScopes = {0}

(***************************************************************************)
(* C40.  Once an exit or switch request has set shouldExit and its abort   *)
(* sequence has completed, the loop starts no new thread and no new turn.  *)
(***************************************************************************)
\* an exit or switch was requested and no handleAbort is still awaiting its
\* interruptTurn: the abort sequence of the request has run
ExitAbortDone == shouldExit /\ abortsAwaiting = 0

\* the loop issues startThread or startTurn
StartsThreadOrTurn ==
    pc' # pc /\ pc' \in {"startThread", "startTurnNew", "startTurn"}

ExitStep == ExitAbortDone => ~StartsThreadOrTurn

\* C40: after the abort of an exit or switch request has completed, no step
\* of the loop issues startThread or startTurn
CE_C40_ExitStartsNothing == [][ExitStep]_vars

\* an exit or switch request leads to the end of the loop
ExitTerminates == shouldExit ~> (pc = "cleaned")

====
